---------------------------- MODULE Spec2Model ----------------------------
(***************************************************************************)
(* Model of the website theme-extraction engine of the support portal:     *)
(*   react-app/src/lib/themeExtractor.ts          (extractTheme and its    *)
(*                                                 colour utilities)       *)
(*   react-app/src/pages/admin/BrandingSettings.tsx (sanitizeHtml)         *)
(*                                                                         *)
(* A JavaScript string is a sequence of one-character strings.  null is    *)
(* the one-element sequence Null, whose element is not a character.  A     *)
(* JavaScript number is an integer, or one of the sentinels NaN and        *)
(* Infinity.                                                               *)
(***************************************************************************)
EXTENDS Integers, Sequences, FiniteSets, TLC

VARIABLES
  pc,          \* position of the modelled caller: "idle" before the call, "done" after
  cssTexts,    \* extractTheme's argument cssTexts: a list of CSS strings
  html,        \* extractTheme's argument html, as the document DOMParser builds from it
  theme,       \* the PortalTheme returned by extractTheme (NoTheme before / on a throw)
  threw,       \* TRUE when the call raised an exception
  colorCounts, \* the tally object of the latest analyzeColors call, as the call left it
  first,       \* the arguments and the result of the first extractTheme call made
  calls,       \* how many extractTheme calls were made
  logo,        \* extractLogoUrl's result
  fragment,    \* sanitizeHtml's argument
  sanitized,   \* sanitizeHtml's result
  cssText,     \* the css argument of analyzeColors, extractFontFamily, extractBackgroundColor
  topColors,   \* analyzeColors' result
  font,        \* extractFontFamily's result
  background,  \* extractBackgroundColor's result
  hexArg,      \* adjustLightness' argument hex
  amountArg,   \* adjustLightness' argument amount, in thousandths
  adjusted,    \* adjustLightness' result
  cssVariables, \* themeToCssVariables' result
  hslArg,      \* hslToHex's arguments h, s, l
  neutral,     \* isNeutralColor's result
  normalized,  \* normalizeHex's result
  hslHex,      \* hslToHex's result
  SP_CONFIG,   \* window.SP_CONFIG: "absent", or its member showAdminInPortal
  cachedConfig, \* the module variable cachedConfig of usePortalConfig.ts
  hooks,       \* the components that use usePortalConfig: position, config and loading
  views,       \* the object stored in localStorage under 'sp_case_views'
  clock,       \* what Date.now() returns
  viewCall,    \* the latest call of caseViews.ts: its name, its arguments, views and time
  branding,    \* the state of the BrandingSettings component
  pending,     \* how many calls of each remote method of ThemeAPI are awaited
  settled,     \* the remote call that settled last, and how
  inlined      \* the theme returned by extractThemeFromData (NoTheme before)

\* the arguments and results of the functions called on their own
functionVars ==
  <<cssText, topColors, font, background, hexArg, amountArg, adjusted, cssVariables>>

\* the arguments and results of the colour utilities called on their own
colorVars == <<hslArg, neutral, normalized, hslHex>>

\* what the calls of extractTheme, sanitizeHtml and extractLogoUrl read and write
themeVars ==
  <<cssTexts, html, theme, threw, colorCounts, first, calls, logo, fragment, sanitized>>

\* the state usePortalConfig reads and writes
portalVars == <<SP_CONFIG, cachedConfig, hooks>>

\* the state caseViews.ts reads and writes
caseVars == <<views, clock, viewCall>>

\* the state of the BrandingSettings screen
screenVars == <<branding, pending, settled>>

\* the result of the copy of the extraction inlined in BrandingSettings.tsx
inlineVars == <<inlined>>

\* what usePortalConfig, caseViews.ts and the BrandingSettings screen each leave alone
portalRest == <<pc, themeVars, functionVars, colorVars, caseVars, screenVars, inlineVars>>
caseRest == <<pc, themeVars, functionVars, colorVars, portalVars, screenVars, inlineVars>>
screenRest == <<pc, themeVars, functionVars, colorVars, portalVars, caseVars, inlineVars>>

\* the state of the portal's hooks, utilities and screens
appVars == <<portalVars, caseVars, screenVars, inlineVars>>

\* the state of everything but the theme engine's functions above
laterVars == <<colorVars, appVars>>

vars ==
  <<pc, cssTexts, html, theme, threw, colorCounts, first, calls, logo, fragment, sanitized,
    functionVars, laterVars>>

\* ------------------------------------------------------------------ values

Null == <<"null">>
NaN == -999999
Infinity == 999999999

\* What a property inherited from Object.prototype evaluates to: an object or a
\* function, truthy and without the methods of a string.
ProtoObject == <<"[object]">>

IsString(v) == v # Null /\ v # ProtoObject

\* a || b of JavaScript on string-or-null operands: the empty string is falsy.
OrElse(a, b) == IF a = Null \/ a = <<>> THEN b ELSE a

\* ------------------------------------------------------------------ characters

Digits == {"0", "1", "2", "3", "4", "5", "6", "7", "8", "9"}
LowerLetters == <<"a", "b", "c", "d", "e", "f", "g", "h", "i", "j", "k", "l", "m",
                  "n", "o", "p", "q", "r", "s", "t", "u", "v", "w", "x", "y", "z">>
UpperLetters == <<"A", "B", "C", "D", "E", "F", "G", "H", "I", "J", "K", "L", "M",
                  "N", "O", "P", "Q", "R", "S", "T", "U", "V", "W", "X", "Y", "Z">>
LowerSet == {LowerLetters[i] : i \in 1..26}
UpperSet == {UpperLetters[i] : i \in 1..26}
UpperToLower == [c \in UpperSet |-> LowerLetters[CHOOSE i \in 1..26 : UpperLetters[i] = c]]

\* String.prototype.toLowerCase, one character
LowerChar(c) == IF c \in UpperSet THEN UpperToLower[c] ELSE c
toLowerCase(s) == [i \in 1..Len(s) |-> LowerChar(s[i])]

\* the character classes of the regular expressions
IsDigit(c) == c \in Digits                                       \* \d
IsWordChar(c) == c \in Digits \/ c \in LowerSet \/ c \in UpperSet \/ c = "_"   \* \w
IsSpace(c) == c \in {" ", "\n", "\t"}                           \* \s
HexChars == <<"0", "1", "2", "3", "4", "5", "6", "7", "8", "9", "a", "b", "c", "d", "e", "f">>
HexLowerSet == {HexChars[i] : i \in 1..16}
IsHexDigit(c) == LowerChar(c) \in HexLowerSet                    \* [0-9a-fA-F]
HexDigitValue(c) == (CHOOSE i \in 1..16 : HexChars[i] = LowerChar(c)) - 1
DecDigitValue(c) == HexDigitValue(c)

Min(a, b) == IF a < b THEN a ELSE b
Max(a, b) == IF a > b THEN a ELSE b

\* s[i], or the empty string (no character) outside the string
At(s, i) == IF i \in 1..Len(s) THEN s[i] ELSE ""

\* s.slice(a, b) for 0 <= a <= b: the characters at 0-based positions a .. b-1
Slice(s, a, b) == SubSeq(s, a + 1, IF b > Len(s) THEN Len(s) ELSE b)

\* the literal lit stands in s at 1-based position i
MatchAt(s, i, lit) ==
  /\ i >= 1
  /\ i + Len(lit) - 1 <= Len(s)
  /\ \A k \in 1..Len(lit) : s[i + k - 1] = lit[k]

\* the same under the i flag; lit is written in lower case
MatchAtCI(s, i, lit) ==
  /\ i >= 1
  /\ i + Len(lit) - 1 <= Len(s)
  /\ \A k \in 1..Len(lit) : LowerChar(s[i + k - 1]) = lit[k]

\* const v = ...: the value is computed once and named in what follows
With(v, Body(_)) == Body(v)

\* the least j in i..n with P(j), n + 1 when there is none: how a scan from the left
\* finds its first position
First(i, n, P(_)) ==
  With({j \in i..n : P(j)},
       LAMBDA hits : IF hits = {} THEN n + 1 ELSE CHOOSE j \in hits : \A k \in hits : j <= k)

\* first position >= i whose character is not white space (\s*)
SkipSpace(s, i) == First(i, Len(s), LAMBDA j : ~IsSpace(s[j]))

\* first position >= i whose character is not a digit (\d+ when it exceeds i)
SkipDigits(s, i) == First(i, Len(s), LAMBDA j : ~IsDigit(s[j]))

\* first position >= i whose character is not a hex digit
SkipHex(s, i) == First(i, Len(s), LAMBDA j : ~IsHexDigit(s[j]))

\* first position >= i whose character is not a word character (\w+ when it exceeds i)
SkipWord(s, i) == First(i, Len(s), LAMBDA j : ~IsWordChar(s[j]))

\* first position >= i holding the character c, Len(s) + 1 when there is none
IndexOfChar(s, c, i) == First(i, Len(s), LAMBDA j : s[j] = c)

\* String.prototype.trim
RECURSIVE TrimEnd(_, _)
TrimEnd(s, j) == IF j >= 1 /\ IsSpace(s[j]) THEN TrimEnd(s, j - 1) ELSE j
trim(s) == SubSeq(s, SkipSpace(s, 1), TrimEnd(s, Len(s)))

\* Array.prototype.join of a list of strings
RECURSIVE join(_, _)
join(texts, sep) ==
  IF Len(texts) = 0 THEN <<>>
  ELSE IF Len(texts) = 1 THEN texts[1]
  ELSE texts[1] \o sep \o join(Tail(texts), sep)

\* s holds lit somewhere (String.prototype.includes, and the [attr*="lit"] selector)
Contains(s, lit) == \E i \in 1..Len(s) : MatchAt(s, i, lit)
ContainsCI(s, lit) == \E i \in 1..Len(s) : MatchAtCI(s, i, lit)

\* ------------------------------------------------------------------ numbers

\* parseInt(s, 16) of a slice of a colour string: the value of the longest prefix of
\* hex digits, NaN when there is none.  The slices have at most two characters.
ParseHex(s) ==
  LET n == SkipHex(s, 1) - 1
  IN IF n = 0 THEN NaN
     ELSE IF n = 1 THEN HexDigitValue(s[1])
     ELSE 16 * HexDigitValue(s[1]) + HexDigitValue(s[2])

\* A decimal literal with more significant digits than this is above the largest
\* double, and parseInt returns Infinity for it.
DoubleMaxDigits == 309

RECURSIVE DecValue(_, _, _)
DecValue(s, i, j) == IF j < i THEN 0 ELSE 10 * DecValue(s, i, j - 1) + DecDigitValue(s[j])

RECURSIVE SkipZeros(_, _, _)
SkipZeros(s, i, j) == IF i < j /\ s[i] = "0" THEN SkipZeros(s, i + 1, j) ELSE i

\* parseInt of the digits s[i..j] matched by (\d+)
ParseInt(s, i, j) ==
  LET k == SkipZeros(s, i, j)
  IN IF j - k + 1 > DoubleMaxDigits THEN Infinity ELSE DecValue(s, k, j)

\* Math.min(255, Math.max(0, v)): NaN stays NaN, Infinity becomes 255
Clamp255(v) == IF v = NaN THEN NaN ELSE Min(255, Max(0, v))

\* v.toString(16).padStart(2, '0') of a clamped channel
ChannelToHex(v) ==
  IF v = NaN THEN <<"N", "a", "N">>
  ELSE <<HexChars[(v \div 16) + 1], HexChars[(v % 16) + 1]>>

\* ------------------------------------------------------------------ colour utilities

\* normalizeHex without the cut of an eight-digit literal to its first six digits
normalizeHexKeepAlpha(hex) ==
  LET h0 == Tail(hex)
      h1 == IF Len(h0) = 3 THEN <<h0[1], h0[1], h0[2], h0[2], h0[3], h0[3]>> ELSE h0
  IN <<"#">> \o toLowerCase(h1)

\* normalizeHex without the lowercasing of its last line: #FF0000 and #ff0000
\* would be two keys of the tally.
normalizeHexKeepCase(hex) ==
  LET h0 == Tail(hex)
      h1 == IF Len(h0) = 3 THEN <<h0[1], h0[1], h0[2], h0[2], h0[3], h0[3]>> ELSE h0
      h2 == IF Len(h1) = 8 THEN SubSeq(h1, 1, 6) ELSE h1
  IN <<"#">> \o h2

normalizeHex(hex) ==
  LET h0 == Tail(hex)                                     \* hex.replace('#', '')
      h1 == IF Len(h0) = 3 THEN <<h0[1], h0[1], h0[2], h0[2], h0[3], h0[3]>> ELSE h0
      h2 == IF Len(h1) = 8 THEN SubSeq(h1, 1, 6) ELSE h1
  IN <<"#">> \o toLowerCase(h2)

Abs(x) == IF x < 0 THEN -x ELSE x

\* The three channels of a colour string, as isNeutralColor, getLuminance and
\* adjustLightness read them.
ChannelR(hex) == ParseHex(Slice(hex, 1, 3))
ChannelG(hex) == ParseHex(Slice(hex, 3, 5))
ChannelB(hex) == ParseHex(Slice(hex, 5, 7))

\* isNeutralColor without its near-gray test (maxDiff < 20)
isNeutralColorNoGray(hex) ==
  LET r == ChannelR(hex)
      g == ChannelG(hex)
      b == ChannelB(hex)
  IN IF r = NaN \/ g = NaN \/ b = NaN THEN FALSE
     ELSE (r > 240 /\ g > 240 /\ b > 240) \/ (r < 15 /\ g < 15 /\ b < 15)

\* the near-gray test of isNeutralColor with the bound included (maxDiff <= 20)
NeutralChannelsInclusive(r, g, b) ==
  LET maxDiff == Max(Abs(r - g), Max(Abs(r - b), Abs(g - b)))
  IN IF r = NaN \/ g = NaN \/ b = NaN
       THEN FALSE
       ELSE maxDiff <= 20 \/ (r > 240 /\ g > 240 /\ b > 240) \/ (r < 15 /\ g < 15 /\ b < 15)

\* the tests of isNeutralColor on the three parsed channels.  Comparisons with NaN
\* are false and Math.max of a NaN is NaN.
NeutralChannels(r, g, b) ==
  LET maxDiff == Max(Abs(r - g), Max(Abs(r - b), Abs(g - b)))
  IN IF r = NaN \/ g = NaN \/ b = NaN
       THEN FALSE            \* Math.max is NaN and every comparison with a NaN is false
       ELSE maxDiff < 20 \/ (r > 240 /\ g > 240 /\ b > 240) \/ (r < 15 /\ g < 15 /\ b < 15)

isNeutralColor(hex) == NeutralChannels(ChannelR(hex), ChannelG(hex), ChannelB(hex))

rgbToHex(r, g, b) ==
  <<"#">> \o ChannelToHex(Clamp255(r)) \o ChannelToHex(Clamp255(g)) \o ChannelToHex(Clamp255(b))

\* One channel of hslToHex, f(n), for finite h, s, l (s and l in percent):
\*   k = (n + h/30) % 12, color = l - a * max(min(k - 3, 9 - k, 1), -1),
\*   a = s * min(l, 1 - l); 255 * color is computed here over the common
\*   denominator 300000, reduced by 15, and rounded as Math.round does.
\* The calls <<n, h, s, l>> of f, among the arguments the calls of hslToHex on its
\* own are given, for which 255 * color is exactly halfway between two integers in
\* the reals and comes out just below the half in doubles (s / 100, l / 100 and
\* h / 30 are not exact): Math.round then gives the lower integer.
HslRoundsDown ==
  { <<8, 0, 80, 50>>, <<4, 0, 80, 50>>, <<8, 0, 100, 95>>, <<4, 0, 100, 95>>,
    <<4, 2, 80, 50>>, <<8, 2, 100, 50>>, <<4, 2, 100, 95>>, <<8, 2, 150, 25>>,
    <<0, 120, 80, 50>>, <<4, 120, 80, 50>>, <<0, 120, 100, 95>>, <<4, 120, 100, 95>>,
    <<0, 210, 80, 50>>, <<0, 210, 100, 95>>, <<8, 360, 80, 50>>, <<4, 360, 80, 50>>,
    <<8, 360, 100, 95>>, <<4, 360, 100, 95>>, <<8, 725, 20, 120>>, <<4, 725, 80, 50>>,
    <<4, 725, 100, 95>>, <<8, 725, 100, 120>> }

\* One channel of hslToHex cut off with Math.floor instead of rounded.
HslChannelFloored(n, h, s, l) ==
  LET k30 == (30 * n + h) % 360
      m30 == Max(Min(Min(k30 - 90, 270 - k30), 30), -30)
      num == 17 * (3000 * l - s * Min(l, 100 - l) * m30)
  IN (2 * num) \div 40000

HslChannel(n, h, s, l) ==
  LET k30 == (30 * n + h) % 360
      m30 == Max(Min(Min(k30 - 90, 270 - k30), 30), -30)
      num == 17 * (3000 * l - s * Min(l, 100 - l) * m30)
  IN ((2 * num + 20000) \div 40000) - (IF <<n, h, s, l>> \in HslRoundsDown THEN 1 ELSE 0)

hslToHex(h, s, l) ==
  IF h = Infinity \/ s = Infinity \/ l = Infinity
    THEN \* k, a or l is not finite.  With h infinite every channel is NaN.
         IF h = Infinity \/ (s = Infinity /\ l = Infinity) THEN rgbToHex(NaN, NaN, NaN)
         ELSE LET ch(n) ==
                    LET k30 == (30 * n + h) % 360
                        m30 == Max(Min(Min(k30 - 90, 270 - k30), 30), -30)
                        \* sign of a = s * min(l, 1 - l), NaN for Infinity * 0
                        aSign == IF s = Infinity
                                   THEN (IF Min(l, 100 - l) = 0 THEN NaN
                                         ELSE IF Min(l, 100 - l) > 0 THEN 1 ELSE -1)
                                   ELSE (IF s = 0 THEN NaN ELSE -1)
                    IN IF aSign = NaN \/ m30 = 0 THEN NaN
                       ELSE IF l = Infinity
                         THEN (IF m30 > 0 THEN Infinity ELSE NaN)
                         ELSE (IF aSign * m30 > 0 THEN 0 - Infinity ELSE Infinity)
              IN rgbToHex(ch(0), ch(8), ch(4))
    ELSE rgbToHex(HslChannel(0, h, s, l), HslChannel(8, h, s, l), HslChannel(4, h, s, l))

\* The exception a call of String.prototype.slice on a non-string raises.
TypeError == -888888

\* The colours whose luminance is exactly 0.5 and for which the double sum
\* 0.2126*r/255 + 0.7152*g/255 + 0.0722*b/255 comes out one unit below 0.5.
LuminanceRoundsDown ==
  { <<13, 163, 113>>, <<30, 153, 162>>, <<78, 146, 90>>, <<126, 139, 18>>,
    <<143, 129, 67>>, <<208, 112, 44>>, <<225, 102, 93>> }

\* getLuminance in units of 1/LuminanceOne; NaN when a channel is NaN.
LuminanceOne == 2550000
LuminanceHalf == 1275000

\* 0.2126 * r + 0.7152 * g + 0.0722 * b of the three parsed channels
LuminanceOfChannels(r, g, b) ==
  IF r = NaN \/ g = NaN \/ b = NaN THEN NaN
  ELSE 2126 * r + 7152 * g + 722 * b
       - (IF <<r, g, b>> \in LuminanceRoundsDown THEN 1 ELSE 0)

getLuminance(hex) ==
  IF ~IsString(hex) THEN TypeError
  ELSE LuminanceOfChannels(ChannelR(hex), ChannelG(hex), ChannelB(hex))

\* getLuminance(hex) < 0.5
LuminanceBelowHalf(lum) == lum # NaN /\ lum # TypeError /\ lum < LuminanceHalf

\* A channel that wraps round modulo 256 instead of saturating.
AdjustChannelWrapping(c, amount) ==
  IF c = NaN THEN NaN
  ELSE ((1000 * c + 255 * amount + 500) \div 1000) % 256

\* Math.min(255, Math.max(0, Math.round(c + 255 * amount))), amount in thousandths
AdjustChannel(c, amount) ==
  IF c = NaN THEN NaN
  ELSE Min(255, Max(0, (1000 * c + 255 * amount + 500) \div 1000))

adjustLightness(hex, amount) ==
  rgbToHex(AdjustChannel(ChannelR(hex), amount),
           AdjustChannel(ChannelG(hex), amount),
           AdjustChannel(ChannelB(hex), amount))

\* ------------------------------------------------------------------ colour analysis

\* colorCounts[hex] = (colorCounts[hex] || 0) + 1.  The object is a list of
\* <<key, count>> pairs in insertion order, the order Object.entries returns.
Tally(counts, hex) ==
  IF \E i \in 1..Len(counts) : counts[i][1] = hex
    THEN [i \in 1..Len(counts) |->
            IF counts[i][1] = hex THEN <<hex, counts[i][2] + 1>> ELSE counts[i]]
    ELSE Append(counts, <<hex, 1>>)

TallyIfColorful(counts, hex) ==
  IF ~isNeutralColor(hex) THEN Tally(counts, hex) ELSE counts

\* /#([0-9a-fA-F]{3,8})\b/ tried at position i: the end of the match (exclusive), 0
\* when it fails.  The run of hex digits must have 3 to 8 digits and be followed by
\* a non-word character: stopping inside the run leaves no word boundary.
HexPatternAt(css, i) ==
  IF At(css, i) # "#" THEN 0
  ELSE With(SkipHex(css, i + 1), LAMBDA e :
         IF e - (i + 1) >= 3 /\ e - (i + 1) <= 8 /\ ~IsWordChar(At(css, e)) THEN e ELSE 0)

\* the loop over hexPattern.exec(css) from lastIndex i - 1
RECURSIVE ScanHex(_, _, _)
ScanHex(css, i, counts) ==
  With(First(i, Len(css), LAMBDA j : HexPatternAt(css, j) # 0), LAMBDA at :
    IF at > Len(css) THEN counts
    ELSE With(HexPatternAt(css, at), LAMBDA e :
           ScanHex(css, e, TallyIfColorful(counts, normalizeHex(SubSeq(css, at, e - 1))))))

\* name a? \( \s* (\d+) \s* , \s* (\d+) pct \s* , \s* (\d+) pct   tried at position i,
\* for rgb (pct empty) and hsl (pct = "%"): the three numbers and the end of the match.
FunctionalAt(css, i, name, pct) ==
  With(IF At(css, i + Len(name)) = "a" THEN i + Len(name) + 1 ELSE i + Len(name),
       LAMBDA p1 :
  With(SkipSpace(css, p1 + 1), LAMBDA a1 :
  With(SkipDigits(css, a1), LAMBDA b1 :
  With(SkipSpace(css, b1), LAMBDA c1 :
  With(SkipSpace(css, c1 + 1), LAMBDA a2 :
  With(SkipDigits(css, a2), LAMBDA b2 :
  With(SkipSpace(css, b2 + Len(pct)), LAMBDA c2 :
  With(SkipSpace(css, c2 + 1), LAMBDA a3 :
  With(SkipDigits(css, a3), LAMBDA b3 :
    IF /\ MatchAt(css, i, name)
       /\ At(css, p1) = "("
       /\ b1 > a1 /\ At(css, c1) = ","
       /\ b2 > a2 /\ (pct = <<>> \/ MatchAt(css, b2, pct)) /\ At(css, c2) = ","
       /\ b3 > a3 /\ (pct = <<>> \/ MatchAt(css, b3, pct))
      THEN [ok |-> TRUE, end |-> b3 + Len(pct),
            n1 |-> ParseInt(css, a1, b1 - 1),
            n2 |-> ParseInt(css, a2, b2 - 1),
            n3 |-> ParseInt(css, a3, b3 - 1)]
      ELSE [ok |-> FALSE, end |-> 0, n1 |-> 0, n2 |-> 0, n3 |-> 0])))))))))

RgbPatternAt(css, i) == FunctionalAt(css, i, <<"r", "g", "b">>, <<>>)
HslPatternAt(css, i) == FunctionalAt(css, i, <<"h", "s", "l">>, <<"%">>)

\* the loop over rgbPattern.exec(css) from lastIndex i - 1
RECURSIVE ScanRgb(_, _, _)
ScanRgb(css, i, counts) ==
  With(First(i, Len(css), LAMBDA j : RgbPatternAt(css, j).ok), LAMBDA at :
    IF at > Len(css) THEN counts
    ELSE With(RgbPatternAt(css, at), LAMBDA m :
           ScanRgb(css, m.end, TallyIfColorful(counts, rgbToHex(m.n1, m.n2, m.n3)))))

\* the loop over hslPattern.exec(css) from lastIndex i - 1
RECURSIVE ScanHsl(_, _, _)
ScanHsl(css, i, counts) ==
  With(First(i, Len(css), LAMBDA j : HslPatternAt(css, j).ok), LAMBDA at :
    IF at > Len(css) THEN counts
    ELSE With(HslPatternAt(css, at), LAMBDA m :
           ScanHsl(css, m.end, TallyIfColorful(counts, hslToHex(m.n1, m.n2, m.n3)))))

\* The entries left in the order they were first tallied, as if the call of sort
\* were missing.
SortByCountUnsorted(entries) == entries

\* Array.prototype.sort((a, b) => b[1] - a[1]): stable, by descending count
RECURSIVE SortByCount(_)
SortByCount(entries) ==
  IF Len(entries) = 0 THEN <<>>
  ELSE LET best == CHOOSE i \in 1..Len(entries) :
                     /\ \A j \in 1..Len(entries) : entries[j][2] <= entries[i][2]
                     /\ \A j \in 1..(i - 1) : entries[j][2] < entries[i][2]
       IN <<entries[best]>> \o
          SortByCount([j \in 1..(Len(entries) - 1) |->
                         IF j < best THEN entries[j] ELSE entries[j + 1]])

\* A tally object kept at module level instead: the next call would go on counting
\* where the last one stopped.
SharedColorCounts == colorCounts

\* The tally a call starts from: const colorCounts = {}, an object of the call
NewColorCounts == <<>>

\* how many colours analyzeColors returns: .slice(0, 5)
TopColors == 5

\* colorCounts when the three scanning loops of analyzeColors are through; every
\* pattern object is created by the call and scans from lastIndex 0
ColorTally(css) ==
  LET afterHex == ScanHex(css, 1, NewColorCounts)
      afterRgb == ScanRgb(css, 1, afterHex)
  IN ScanHsl(css, 1, afterRgb)

analyzeColors(css) ==
  With(SortByCount(ColorTally(css)), LAMBDA sorted :
    [i \in 1..Min(TopColors, Len(sorted)) |-> sorted[i][1]])

\* ------------------------------------------------------------------ font and background

\* selector \s* \{ [^}]* property (suffix)? \s* : \s* ([^;]+)   under the i flag, as
\* String.prototype.match finds it: the trimmed capture of the leftmost match, Null
\* when there is none.  [^}]* is greedy, so of the declarations of the property that
\* stand before the first closing brace the last one is captured; the capture runs to
\* the next semicolon or to the end of the text.
DeclarationAt(css, t, property, suffix) ==
  LET u0 == t + Len(property)
      u1 == IF Len(suffix) > 0 /\ MatchAtCI(css, u0, suffix) THEN u0 + Len(suffix) ELSE u0
  IN With(SkipSpace(css, u1), LAMBDA c :
     With(IndexOfChar(css, ";", c + 1), LAMBDA to :
       IF MatchAtCI(css, t, property) /\ At(css, c) = ":" /\ to > c + 1
         THEN [ok |-> TRUE, value |-> trim(SubSeq(css, c + 1, to - 1))]
         ELSE [ok |-> FALSE, value |-> <<>>]))

RuleMatchAt(css, p, selector, property, suffix) ==
  With(SkipSpace(css, p + Len(selector)), LAMBDA q :
  With(IndexOfChar(css, "}", q + 1), LAMBDA close :
  With({t \in (q + 1)..(close - 1) : DeclarationAt(css, t, property, suffix).ok},
       LAMBDA starts :
    IF MatchAtCI(css, p, selector) /\ At(css, q) = "{" /\ starts # {}
      THEN DeclarationAt(css, CHOOSE t \in starts : \A x \in starts : x <= t,
                         property, suffix)
      ELSE [ok |-> FALSE, value |-> <<>>])))

RuleMatch(css, selector, property, suffix) ==
  With(First(1, Len(css), LAMBDA j : RuleMatchAt(css, j, selector, property, suffix).ok),
       LAMBDA p :
    IF p > Len(css) THEN Null ELSE RuleMatchAt(css, p, selector, property, suffix).value)

LitBody == <<"b", "o", "d", "y">>
LitHtml == <<"h", "t", "m", "l">>
LitRoot == <<":", "r", "o", "o", "t">>
LitFontFamily == <<"f", "o", "n", "t", "-", "f", "a", "m", "i", "l", "y">>
LitBackground == <<"b", "a", "c", "k", "g", "r", "o", "u", "n", "d">>
LitColorSuffix == <<"-", "c", "o", "l", "o", "r">>

\* .replace(/["']/g, '')
RECURSIVE StripQuotes(_)
StripQuotes(s) ==
  IF Len(s) = 0 THEN <<>>
  ELSE IF Head(s) \in {"\"", "'"} THEN StripQuotes(Tail(s))
  ELSE <<Head(s)>> \o StripQuotes(Tail(s))

\* a || b on the results of String.prototype.match: an array is truthy
OrMatch(a, b) == IF a # Null THEN a ELSE b

extractFontFamily(css) ==
  With(OrMatch(RuleMatch(css, LitBody, LitFontFamily, <<>>),
       OrMatch(RuleMatch(css, LitHtml, LitFontFamily, <<>>),
               RuleMatch(css, LitRoot, LitFontFamily, <<>>))),
       LAMBDA match : IF match # Null THEN StripQuotes(match) ELSE Null)

\* val.match(/#[0-9a-fA-F]{3,8}/): the leftmost '#' followed by at least three hex
\* digits, with at most eight of them
FirstHexLiteral(val) ==
  With(First(1, Len(val), LAMBDA j : val[j] = "#" /\ SkipHex(val, j + 1) - (j + 1) >= 3),
       LAMBDA i :
    IF i > Len(val) THEN Null
    ELSE SubSeq(val, i, Min(SkipHex(val, i + 1) - 1, i + 8)))

\* val.match(rgb pattern) and val.match(hsl pattern): the leftmost match
FirstRgb(val) == RgbPatternAt(val, First(1, Len(val), LAMBDA j : RgbPatternAt(val, j).ok))
FirstHsl(val) == HslPatternAt(val, First(1, Len(val), LAMBDA j : HslPatternAt(val, j).ok))

\* namedColors[key]: the own properties of the literal, then the properties every
\* object inherits from Object.prototype whose names are all lower case.
NamedColorLookup(key) ==
  IF key = <<"w", "h", "i", "t", "e">> THEN <<"#", "f", "f", "f", "f", "f", "f">>
  ELSE IF key = <<"b", "l", "a", "c", "k">> THEN <<"#", "0", "0", "0", "0", "0", "0">>
  ELSE IF key = <<"r", "e", "d">> THEN <<"#", "f", "f", "0", "0", "0", "0">>
  ELSE IF key = <<"b", "l", "u", "e">> THEN <<"#", "0", "0", "0", "0", "f", "f">>
  ELSE IF key = <<"g", "r", "e", "e", "n">> THEN <<"#", "0", "0", "8", "0", "0", "0">>
  ELSE IF key = <<"t", "r", "a", "n", "s", "p", "a", "r", "e", "n", "t">>
    THEN <<"#", "f", "f", "f", "f", "f", "f">>
  ELSE IF key = <<"c", "o", "n", "s", "t", "r", "u", "c", "t", "o", "r">> THEN ProtoObject
  ELSE IF key = <<"_", "_", "p", "r", "o", "t", "o", "_", "_">> THEN ProtoObject
  ELSE Null

cssValueToHex(val) ==
  With(FirstHexLiteral(val), LAMBDA hexMatch :
    IF hexMatch # Null THEN normalizeHex(hexMatch)
    ELSE With(FirstRgb(val), LAMBDA rgbMatch :
      IF rgbMatch.ok THEN rgbToHex(rgbMatch.n1, rgbMatch.n2, rgbMatch.n3)
      ELSE With(FirstHsl(val), LAMBDA hslMatch :
        IF hslMatch.ok THEN hslToHex(hslMatch.n1, hslMatch.n2, hslMatch.n3)
        ELSE NamedColorLookup(toLowerCase(val)))))

extractBackgroundColor(css) ==
  With(RuleMatch(css, LitBody, LitBackground, LitColorSuffix), LAMBDA match :
    IF match # Null THEN cssValueToHex(match) ELSE Null)

\* ------------------------------------------------------------------ the parsed document

(***************************************************************************)
(* The document DOMParser builds from the html argument, reduced to what   *)
(* the selectors of extractLogoUrl and extractFaviconUrl read:             *)
(*   imgs   the img elements in document order, each with its src          *)
(*          attribute (Null when absent) and the ancestors and position    *)
(*          the selectors test;                                            *)
(*   metas  the content attributes of the meta[property="og:image"]        *)
(*          elements in document order (Null when absent);                 *)
(*   links  the link elements in document order, with rel and href.        *)
(***************************************************************************)
LitLogo == <<"l", "o", "g", "o">>

\* img matches the k-th entry of the selectors array of extractLogoUrl
LogoSelectorMatches(k, img) ==
  CASE k = 1 -> img.inHeader /\ img.src # Null /\ Contains(img.src, LitLogo)
    [] k = 2 -> img.inNav /\ img.src # Null /\ Contains(img.src, LitLogo)
    [] k = 3 -> img.inLogoClass
    [] k = 4 -> img.inHeader
    [] k = 5 -> img.inNav
    [] k = 6 -> img.firstInAnchor

LogoSelectors == 6

\* doc.querySelector(selectors[k]): the index of the first matching img, 0 for null
QueryLogoSelector(doc, k) ==
  IF \E i \in 1..Len(doc.imgs) : LogoSelectorMatches(k, doc.imgs[i])
    THEN CHOOSE i \in 1..Len(doc.imgs) :
           /\ LogoSelectorMatches(k, doc.imgs[i])
           /\ \A j \in 1..(i - 1) : ~LogoSelectorMatches(k, doc.imgs[j])
    ELSE 0

\* One query for all the selectors together, as querySelectorAll of a selector list
\* answers it: the first img in document order that matches any of them.
LogoInDocumentOrder(doc, k) ==
  LET hit(i) == \E n \in 1..LogoSelectors : LogoSelectorMatches(n, doc.imgs[i])
      i == First(1, Len(doc.imgs), hit)
  IN IF i <= Len(doc.imgs) /\ doc.imgs[i].src # Null /\ doc.imgs[i].src # <<>>
       THEN doc.imgs[i].src
       ELSE Null

\* the src the loop over selectors k, k+1, ... returns, Null when it runs out
RECURSIVE LogoFromSelector(_, _)
LogoFromSelector(doc, k) ==
  IF k > LogoSelectors THEN Null
  ELSE LET i == QueryLogoSelector(doc, k)
       IN IF i # 0 /\ doc.imgs[i].src # Null /\ doc.imgs[i].src # <<>>
            THEN doc.imgs[i].src
            ELSE LogoFromSelector(doc, k + 1)

extractLogoUrl(doc) ==
  LET src == LogoFromSelector(doc, 1)
  IN IF src # Null THEN src
     ELSE IF Len(doc.metas) > 0 THEN doc.metas[1]
     ELSE Null

FaviconRels == <<"icon", "shortcut icon", "apple-touch-icon">>

QueryLink(doc, rel) ==
  IF \E i \in 1..Len(doc.links) : doc.links[i].rel = rel
    THEN CHOOSE i \in 1..Len(doc.links) :
           /\ doc.links[i].rel = rel
           /\ \A j \in 1..(i - 1) : doc.links[j].rel # rel
    ELSE 0

RECURSIVE FaviconFromSelector(_, _)
FaviconFromSelector(doc, k) ==
  IF k > Len(FaviconRels) THEN Null
  ELSE LET i == QueryLink(doc, FaviconRels[k])
       IN IF i # 0 /\ doc.links[i].href # Null /\ doc.links[i].href # <<>>
            THEN doc.links[i].href
            ELSE FaviconFromSelector(doc, k + 1)

extractFaviconUrl(doc) == FaviconFromSelector(doc, 1)

\* ------------------------------------------------------------------ extractTheme

DefaultPrimary == <<"#", "0", "e", "a", "5", "e", "9">>
DefaultSecondary == <<"#", "1", "0", "b", "9", "8", "1">>
DefaultDarkBg == <<"#", "0", "a", "0", "a", "0", "f">>
DefaultLightBg == <<"#", "f", "f", "f", "f", "f", "f">>
DefaultFont == <<"I", "n", "t", "e", "r", ",", " ", "-", "a", "p", "p", "l", "e", "-",
                 "s", "y", "s", "t", "e", "m", ",", " ", "s", "a", "n", "s", "-",
                 "s", "e", "r", "i", "f">>
DarkText == <<"#", "f", "f", "f", "f", "f", "f">>
LightText == <<"#", "1", "f", "2", "9", "3", "7">>
\* the secondary text colour of a dark theme taken from the light branch
DarkTextSecondaryAsLight == <<"#", "6", "b", "7", "2", "8", "0">>
DarkTextSecondary == <<"#", "a", "1", "a", "1", "a", "a">>
LightTextSecondary == <<"#", "6", "b", "7", "2", "8", "0">>
DarkBorder == <<"#", "2", "a", "2", "a", "3", "a">>
LightBorder == <<"#", "e", "5", "e", "7", "e", "b">>

NoTheme == [none |-> TRUE]

\* The result of a call: the value returned, or the exception raised.
Returned(v) == [threw |-> FALSE, value |-> v]
Raised == [threw |-> TRUE, value |-> NoTheme]

\* the hover amount of a dark theme taken from the light branch
HoverDarkAsLight == -100

\* the lightness amounts, in thousandths
HoverDark == 80
HoverLight == -100
SurfaceDark == 50
\* a light surface shifted further than the elevated level
SurfaceLightDeeper == -80
SurfaceLight == -30
ElevatedDark == 80
ElevatedLight == -50

\* isDark with the comparison turned round (> 0.5)
isDarkOfFlipped(bgColor) ==
  IF bgColor # Null
    THEN getLuminance(bgColor) # NaN /\ getLuminance(bgColor) > LuminanceHalf
    ELSE FALSE

\* isDark defaulting to dark when no background was parsed
isDarkOfDefaultDark(bgColor) ==
  IF bgColor # Null THEN LuminanceBelowHalf(getLuminance(bgColor)) ELSE TRUE

\* const isDark = bgColor ? getLuminance(bgColor) < 0.5 : false
isDarkOf(bgColor) ==
  IF bgColor # Null THEN LuminanceBelowHalf(getLuminance(bgColor)) ELSE FALSE

\* extractTheme with the mined primary colour dropped for a document that has a
\* logo: a colour field that depends on the HTML.
extractThemeLogoBranded(doc, texts) ==
  With(join(texts, <<"\n">>), LAMBDA allCss :
  With(analyzeColors(allCss), LAMBDA colors :
  With(extractFontFamily(allCss), LAMBDA fontFamily :
  With(extractBackgroundColor(allCss), LAMBDA bgColor :
  With(isDarkOf(bgColor), LAMBDA isDark :
  With(extractLogoUrl(doc), LAMBDA logoUrl :
  With(extractFaviconUrl(doc), LAMBDA faviconUrl :
  With(IF Len(colors) >= 1 THEN OrElse(colors[1], DefaultPrimary) ELSE DefaultPrimary,
       LAMBDA primary :
  With(IF Len(colors) >= 2 THEN OrElse(colors[2], DefaultSecondary) ELSE DefaultSecondary,
       LAMBDA secondary :
    \* getLuminance(bgColor) raises when bgColor is not a string
    IF bgColor # Null /\ getLuminance(bgColor) = TypeError THEN Raised
    ELSE Returned(
       [primaryColor |-> IF logoUrl # Null THEN DefaultPrimary ELSE primary,
        primaryHover |-> adjustLightness(primary, IF isDark THEN HoverDark ELSE HoverLight),
        secondaryColor |-> secondary,
        bgColor |-> OrElse(bgColor, IF isDark THEN DefaultDarkBg ELSE DefaultLightBg),
        surfaceColor |-> IF isDark
                           THEN adjustLightness(OrElse(bgColor, DefaultDarkBg), SurfaceDark)
                           ELSE adjustLightness(OrElse(bgColor, DefaultLightBg), SurfaceLight),
        elevatedColor |-> IF isDark
                            THEN adjustLightness(OrElse(bgColor, DefaultDarkBg), ElevatedDark)
                            ELSE adjustLightness(OrElse(bgColor, DefaultLightBg), ElevatedLight),
        textColor |-> IF isDark THEN DarkText ELSE LightText,
        textSecondary |-> IF isDark THEN DarkTextSecondary ELSE LightTextSecondary,
        borderColor |-> IF isDark THEN DarkBorder ELSE LightBorder,
        fontFamily |-> OrElse(fontFamily, DefaultFont),
        logoUrl |-> OrElse(logoUrl, <<>>),
        faviconUrl |-> OrElse(faviconUrl, <<>>),
        isDark |-> isDark]))))))))))

extractTheme(doc, texts) ==
  With(join(texts, <<"\n">>), LAMBDA allCss :
  With(analyzeColors(allCss), LAMBDA colors :
  With(extractFontFamily(allCss), LAMBDA fontFamily :
  With(extractBackgroundColor(allCss), LAMBDA bgColor :
  With(isDarkOf(bgColor), LAMBDA isDark :
  With(extractLogoUrl(doc), LAMBDA logoUrl :
  With(extractFaviconUrl(doc), LAMBDA faviconUrl :
  With(IF Len(colors) >= 1 THEN OrElse(colors[1], DefaultPrimary) ELSE DefaultPrimary,
       LAMBDA primary :
  With(IF Len(colors) >= 2 THEN OrElse(colors[2], DefaultSecondary) ELSE DefaultSecondary,
       LAMBDA secondary :
    \* getLuminance(bgColor) raises when bgColor is not a string
    IF bgColor # Null /\ getLuminance(bgColor) = TypeError THEN Raised
    ELSE Returned(
       [primaryColor |-> primary,
        primaryHover |-> adjustLightness(primary, IF isDark THEN HoverDark ELSE HoverLight),
        secondaryColor |-> secondary,
        bgColor |-> OrElse(bgColor, IF isDark THEN DefaultDarkBg ELSE DefaultLightBg),
        surfaceColor |-> IF isDark
                           THEN adjustLightness(OrElse(bgColor, DefaultDarkBg), SurfaceDark)
                           ELSE adjustLightness(OrElse(bgColor, DefaultLightBg), SurfaceLight),
        elevatedColor |-> IF isDark
                            THEN adjustLightness(OrElse(bgColor, DefaultDarkBg), ElevatedDark)
                            ELSE adjustLightness(OrElse(bgColor, DefaultLightBg), ElevatedLight),
        textColor |-> IF isDark THEN DarkText ELSE LightText,
        textSecondary |-> IF isDark THEN DarkTextSecondary ELSE LightTextSecondary,
        borderColor |-> IF isDark THEN DarkBorder ELSE LightBorder,
        fontFamily |-> OrElse(fontFamily, DefaultFont),
        logoUrl |-> OrElse(logoUrl, <<>>),
        faviconUrl |-> OrElse(faviconUrl, <<>>),
        isDark |-> isDark]))))))))))

\* ------------------------------------------------------------------ inputs of extractTheme

\* The CSS texts a call is given are drawn from these pieces; join puts a line break
\* between two of them.
\* body{background:
CssBodyBackground ==
  <<"b", "o", "d", "y", "{", "b", "a", "c", "k", "g", "r", "o", "u", "n", "d", ":">>
\* #0a0a0f;color:#f00}
CssDarkValue ==
  <<"#", "0", "a", "0", "a", "0", "f", ";", "c", "o", "l", "o", "r", ":", "#", "f",
    "0", "0", "}">>
\* a{color:#ABCD}
CssFourDigitHex ==
  <<"a", "{", "c", "o", "l", "o", "r", ":", "#", "A", "B", "C", "D", "}">>
\* #f00 #FF0000ff
CssRedTwice ==
  <<"#", "f", "0", "0", " ", "#", "F", "F", "0", "0", "0", "0", "f", "f">>
\* rgb(0, 128,255)
CssRgb ==
  <<"r", "g", "b", "(", "0", ",", " ", "1", "2", "8", ",", "2", "5", "5", ")">>
\* hsl(120,100%,50%)
CssHsl ==
  <<"h", "s", "l", "(", "1", "2", "0", ",", "1", "0", "0", "%", ",", "5", "0", "%",
    ")">>
\* constructor
CssConstructor ==
  <<"c", "o", "n", "s", "t", "r", "u", "c", "t", "o", "r">>
\* #808080 #ffffff #000
CssNeutrals ==
  <<"#", "8", "0", "8", "0", "8", "0", " ", "#", "f", "f", "f", "f", "f", "f", " ",
    "#", "0", "0", "0">>
\* body{font-family:'Inter';
CssBodyFont ==
  <<"b", "o", "d", "y", "{", "f", "o", "n", "t", "-", "f", "a", "m", "i", "l", "y",
    ":", "'", "I", "n", "t", "e", "r", "'", ";">>
\* #0da371;
CssTieValue ==
  <<"#", "0", "d", "a", "3", "7", "1", ";">>
\* white
CssWhite ==
  <<"w", "h", "i", "t", "e">>
\* rgba(300,0,0,1)
CssRgbOverflow ==
  <<"r", "g", "b", "a", "(", "3", "0", "0", ",", "0", ",", "0", ",", "1", ")">>
\* hsl(99...9,100%,50%) with a hue of DoubleMaxDigits + 1 digits
CssHslHugeHue ==
  <<"h", "s", "l", "(">> \o [i \in 1..(DoubleMaxDigits + 1) |-> "9"] \o
  <<",", "1", "0", "0", "%", ",", "5", "0", "%", ")">>

CssPieces ==
  { CssBodyBackground, CssDarkValue, CssFourDigitHex, CssRedTwice, CssRgb, CssHsl,
    CssConstructor, CssNeutrals, CssBodyFont, CssTieValue, CssWhite, CssRgbOverflow,
    CssHslHugeHue }

\* the longest cssTexts list a call is given
MaxCssTexts == 2

CssInputs == UNION {[1..n -> CssPieces] : n \in 0..MaxCssTexts}

\* DOMParser's document for the empty string
EmptyDoc == [imgs |-> <<>>, metas |-> <<>>, links |-> <<>>]

\* logo.png
SrcLogoPng ==
  <<"l", "o", "g", "o", ".", "p", "n", "g">>
\* /f.ico
HrefFavicon ==
  <<"/", "f", ".", "i", "c", "o">>

\* <header><img src="logo.png"></header> with <link rel="icon" href="/f.ico">
BrandedDoc ==
  [imgs |-> <<[inHeader |-> TRUE, inNav |-> FALSE, inLogoClass |-> FALSE,
               firstInAnchor |-> FALSE, src |-> SrcLogoPng]>>,
   metas |-> <<>>,
   links |-> <<[rel |-> "icon", href |-> HrefFavicon]>>]

ThemeDocs == {EmptyDoc, BrandedDoc}

\* ------------------------------------------------------------------ one call of extractTheme

NoCall == [made |-> FALSE]
Unset == <<"unset">>

\* no colour utility has been called on its own
NoColorCalled ==
  /\ hslArg = <<>>
  /\ neutral = Unset
  /\ normalized = Unset
  /\ hslHex = Unset

\* no component uses usePortalConfig
NoPortal ==
  /\ SP_CONFIG = "absent"
  /\ cachedConfig = [none |-> TRUE]
  /\ hooks = <<>>

\* caseViews.ts is not in use
NoCaseViews ==
  /\ views = <<>>
  /\ clock = 0
  /\ viewCall = [op |-> "none"]

\* the BrandingSettings screen is not mounted
NoBranding ==
  /\ branding = [none |-> TRUE]
  /\ pending = <<>>
  /\ settled = [call |-> "none"]

\* extractThemeFromData has not been called
NoInlined == inlined = [none |-> TRUE]

\* no hook, utility or screen of the portal is in use
NoApp == NoPortal /\ NoCaseViews /\ NoBranding /\ NoInlined

\* nothing but the theme engine's functions is in use
NothingElse == NoColorCalled /\ NoApp

\* none of the functions called on their own has been called
NoFunctionCalled ==
  /\ cssText = <<>>
  /\ topColors = Unset
  /\ font = Unset
  /\ background = Unset
  /\ hexArg = <<>>
  /\ amountArg = 0
  /\ adjusted = Unset
  /\ cssVariables = Unset

InitTheme ==
  /\ NothingElse
  /\ NoFunctionCalled
  /\ pc = "idle"
  /\ cssTexts \in CssInputs
  /\ html \in ThemeDocs
  /\ theme = NoTheme
  /\ threw = FALSE
  /\ colorCounts = <<>>
  /\ first = NoCall
  /\ calls = 0
  /\ logo = Unset
  /\ fragment = <<>>
  /\ sanitized = <<>>

ExtractTheme ==
  /\ pc = "idle"
  /\ LET result == extractTheme(html, cssTexts)
     IN /\ theme' = result.value
        /\ threw' = result.threw
  /\ colorCounts' = ColorTally(join(cssTexts, <<"\n">>))
  /\ calls' = calls + 1
  /\ pc' = "done"
  /\ UNCHANGED <<laterVars, cssTexts, html, first, logo, fragment, sanitized, functionVars>>

NextTheme == ExtractTheme

SpecTheme == InitTheme /\ [][NextTheme]_vars

\* ------------------------------------------------------------------ sanitizeHtml

\* String.prototype.replace with a global pattern: MatchEnd(s, j) is the end
\* (exclusive) of the pattern's match at position j, 0 when it does not match there.
\* The scan resumes where a match ended; what was replaced is never scanned again.
RECURSIVE ReplaceAll(_, _, _, _)
ReplaceAll(s, i, MatchEnd(_, _), replacement) ==
  LET at == First(i, Len(s), LAMBDA j : MatchEnd(s, j) # 0)
  IN IF at > Len(s) THEN SubSeq(s, i, Len(s))
     ELSE SubSeq(s, i, at - 1) \o replacement \o
          ReplaceAll(s, MatchEnd(s, at), MatchEnd, replacement)

Quotes == {"\"", "'"}

\* /<tag\b[^<]*(?:(?!<\/tag>)<[^<]*)*<\/tag>/gi at position i: an opening "<tag" at a
\* word boundary, then everything up to and including the first "</tag>" after it.
BlockEnd(s, i, tag) ==
  LET open == <<"<">> \o tag
      close == <<"<", "/">> \o tag \o <<">">>
      from == i + Len(open)
      c == First(from, Len(s), LAMBDA j : MatchAtCI(s, j, close))
  IN IF MatchAtCI(s, i, open) /\ ~IsWordChar(At(s, from)) /\ c <= Len(s)
       THEN c + Len(close)
       ELSE 0

LitScript == <<"s", "c", "r", "i", "p", "t">>
LitNoscript == <<"n", "o", "s", "c", "r", "i", "p", "t">>
LitIframe == <<"i", "f", "r", "a", "m", "e">>
LitOn == <<"o", "n">>
LitHref == <<"h", "r", "e", "f">>
LitJavascript == <<"j", "a", "v", "a", "s", "c", "r", "i", "p", "t", ":">>
LitHrefHash == <<"h", "r", "e", "f", "=", "\"", "#", "\"">>

ScriptEnd(s, i) == BlockEnd(s, i, LitScript)
NoscriptEnd(s, i) == BlockEnd(s, i, LitNoscript)
IframeEnd(s, i) == BlockEnd(s, i, LitIframe)

\* \s+on\w+\s*=\s*  at position i: the position after it, 0 when it does not match
HandlerNameEnd(s, i) ==
  LET w == SkipSpace(s, i)
      x == SkipWord(s, w + 2)
      y == SkipSpace(s, x)
  IN IF IsSpace(At(s, i)) /\ MatchAtCI(s, w, LitOn) /\ x > w + 2 /\ At(s, y) = "="
       THEN SkipSpace(s, y + 1)
       ELSE 0

\* /\s+on\w+\s*=\s*["'][^"']*["']/gi: the value runs from a quote of either kind to
\* the next quote of either kind
QuotedHandlerEnd(s, i) ==
  LET z == HandlerNameEnd(s, i)
      q == First(z + 1, Len(s), LAMBDA j : s[j] \in Quotes)
  IN IF z # 0 /\ At(s, z) \in Quotes /\ q <= Len(s) THEN q + 1 ELSE 0

\* /\s+on\w+\s*=\s*[^\s>"']*/gi
UnquotedHandlerEnd(s, i) ==
  LET z == HandlerNameEnd(s, i)
  IN IF z # 0
       THEN First(z, Len(s), LAMBDA j : IsSpace(s[j]) \/ s[j] = ">" \/ s[j] \in Quotes)
       ELSE 0

\* /href\s*=\s*["']javascript:[^"']*["']/gi
JavascriptHrefEnd(s, i) ==
  LET y == SkipSpace(s, i + Len(LitHref))
      z == SkipSpace(s, y + 1)
      q == First(z + 1 + Len(LitJavascript), Len(s), LAMBDA j : s[j] \in Quotes)
  IN IF /\ MatchAtCI(s, i, LitHref) /\ At(s, y) = "=" /\ At(s, z) \in Quotes
        /\ MatchAtCI(s, z + 1, LitJavascript) /\ q <= Len(s)
       THEN q + 1
       ELSE 0

sanitizeHtml(input) ==
  LET noScript == ReplaceAll(input, 1, ScriptEnd, <<>>)
      noNoscript == ReplaceAll(noScript, 1, NoscriptEnd, <<>>)
      noIframe == ReplaceAll(noNoscript, 1, IframeEnd, <<>>)
      noQuoted == ReplaceAll(noIframe, 1, QuotedHandlerEnd, <<>>)
      noUnquoted == ReplaceAll(noQuoted, 1, UnquotedHandlerEnd, <<>>)
  IN ReplaceAll(noUnquoted, 1, JavascriptHrefEnd, LitHrefHash)

\* ------------------------------------------------------------------ inputs of sanitizeHtml

\* The fragments given to sanitizeHtml are concatenations of these pieces.
\* <script>a</script>
HtmlScriptBlock ==
  <<"<", "s", "c", "r", "i", "p", "t", ">", "a", "<", "/", "s", "c", "r", "i", "p",
    "t", ">">>
\* <scr
HtmlScrHalf ==
  <<"<", "s", "c", "r">>
\* ipt>a</script>
HtmlIptHalf ==
  <<"i", "p", "t", ">", "a", "<", "/", "s", "c", "r", "i", "p", "t", ">">>
\* <SCRIPT src=x>
HtmlScriptOpen ==
  <<"<", "S", "C", "R", "I", "P", "T", " ", "s", "r", "c", "=", "x", ">">>
\* <iframe></iframe>
HtmlIframeBlock ==
  <<"<", "i", "f", "r", "a", "m", "e", ">", "<", "/", "i", "f", "r", "a", "m", "e",
    ">">>
\* <a onclick="f('x')">
HtmlQuotedHandler ==
  <<"<", "a", " ", "o", "n", "c", "l", "i", "c", "k", "=", "\"", "f", "(", "'", "x",
    "'", ")", "\"", ">">>
\* <a onclick="f()">
HtmlPlainHandler ==
  <<"<", "a", " ", "o", "n", "c", "l", "i", "c", "k", "=", "\"", "f", "(", ")", "\"",
    ">">>
\* <a onload=f()>
HtmlBareHandler ==
  <<"<", "a", " ", "o", "n", "l", "o", "a", "d", "=", "f", "(", ")", ">">>
\* <a onclick
HtmlHandlerName ==
  <<"<", "a", " ", "o", "n", "c", "l", "i", "c", "k">>
\*  onx=a
HtmlOtherHandler ==
  <<" ", "o", "n", "x", "=", "a">>
\*  ="f()">
HtmlHandlerValue ==
  <<" ", "=", "\"", "f", "(", ")", "\"", ">">>
\* <a href=" javascript:f()">
HtmlSpacedJsHref ==
  <<"<", "a", " ", "h", "r", "e", "f", "=", "\"", " ", "j", "a", "v", "a", "s", "c",
    "r", "i", "p", "t", ":", "f", "(", ")", "\"", ">">>
\* <a href='JavaScript:f()'>
HtmlJsHref ==
  <<"<", "a", " ", "h", "r", "e", "f", "=", "'", "J", "a", "v", "a", "S", "c", "r",
    "i", "p", "t", ":", "f", "(", ")", "'", ">">>
\* <a href=javascript:f()>
HtmlBareJsHref ==
  <<"<", "a", " ", "h", "r", "e", "f", "=", "j", "a", "v", "a", "s", "c", "r", "i",
    "p", "t", ":", "f", "(", ")", ">">>
\* <b>is on1 = 2</b>
HtmlText ==
  <<"<", "b", ">", "i", "s", " ", "o", "n", "1", " ", "=", " ", "2", "<", "/", "b",
    ">">>
\* <header><script>alert(1)</script><div class="logo">X</div></header>
HtmlSpecExample ==
  <<"<", "h", "e", "a", "d", "e", "r", ">", "<", "s", "c", "r", "i", "p", "t", ">",
    "a", "l", "e", "r", "t", "(", "1", ")", "<", "/", "s", "c", "r", "i", "p", "t",
    ">", "<", "d", "i", "v", " ", "c", "l", "a", "s", "s", "=", "\"", "l", "o", "g",
    "o", "\"", ">", "X", "<", "/", "d", "i", "v", ">", "<", "/", "h", "e", "a", "d",
    "e", "r", ">">>
\* <header><div class="logo">X</div></header>
HtmlSpecExampleClean ==
  <<"<", "h", "e", "a", "d", "e", "r", ">", "<", "d", "i", "v", " ", "c", "l", "a",
    "s", "s", "=", "\"", "l", "o", "g", "o", "\"", ">", "X", "<", "/", "d", "i", "v",
    ">", "<", "/", "h", "e", "a", "d", "e", "r", ">">>

HtmlPieces ==
  { HtmlScriptBlock, HtmlScrHalf, HtmlIptHalf, HtmlScriptOpen, HtmlIframeBlock,
    HtmlQuotedHandler, HtmlPlainHandler, HtmlBareHandler, HtmlHandlerName,
    HtmlOtherHandler, HtmlHandlerValue, HtmlSpacedJsHref, HtmlJsHref, HtmlBareJsHref,
    HtmlText, HtmlSpecExample }

\* the most pieces a fragment is made of
MaxHtmlPieces == 3

HtmlInputs == {join(ps, <<>>) : ps \in UNION {[1..n -> HtmlPieces] : n \in 0..MaxHtmlPieces}}

\* ------------------------------------------------------------------ one call of sanitizeHtml

InitSanitize ==
  /\ NothingElse
  /\ NoFunctionCalled
  /\ pc = "idle"
  /\ fragment \in HtmlInputs
  /\ sanitized = <<>>
  /\ cssTexts = <<>>
  /\ html = EmptyDoc
  /\ theme = NoTheme
  /\ threw = FALSE
  /\ colorCounts = <<>>
  /\ first = NoCall
  /\ calls = 0
  /\ logo = Unset

SanitizeHtml ==
  /\ pc = "idle"
  /\ sanitized' = sanitizeHtml(fragment)
  /\ pc' = "done"
  /\ UNCHANGED <<laterVars, fragment, cssTexts, html, theme, threw, colorCounts, first, calls, logo,
               functionVars>>

NextSanitize == SanitizeHtml

SpecSanitize == InitSanitize /\ [][NextSanitize]_vars

\* ------------------------------------------------------------------ repeated calls of extractTheme

\* The cssTexts arguments the repeated calls choose from.
CallCssInputs ==
  { <<>>, <<CssRedTwice>>, <<CssHsl>>, <<CssRedTwice, CssHsl>>, <<CssNeutrals, CssRgb>>,
    <<CssBodyBackground, CssDarkValue>>, <<CssBodyFont>> }

InitCalls ==
  /\ NothingElse
  /\ NoFunctionCalled
  /\ pc = "idle"
  /\ cssTexts = <<>>
  /\ html = EmptyDoc
  /\ theme = NoTheme
  /\ threw = FALSE
  /\ colorCounts = <<>>
  /\ first = NoCall
  /\ calls = 0
  /\ logo = Unset
  /\ fragment = <<>>
  /\ sanitized = <<>>

\* the most calls made in a row
MaxCalls == 3

\* One more call of extractTheme, with any arguments, after any calls made before.
CallExtractTheme ==
  \E doc \in ThemeDocs, texts \in CallCssInputs :
    LET result == extractTheme(doc, texts)
    IN /\ calls < MaxCalls
       /\ calls' = calls + 1
       /\ html' = doc
       /\ cssTexts' = texts
       /\ theme' = result.value
       /\ threw' = result.threw
       /\ colorCounts' = ColorTally(join(texts, <<"\n">>))
       /\ first' = IF first.made THEN first
                   ELSE [made |-> TRUE, html |-> doc, cssTexts |-> texts,
                         theme |-> theme', threw |-> threw']
       /\ pc' = "done"
       /\ UNCHANGED <<laterVars, logo, fragment, sanitized, functionVars>>

NextCalls == CallExtractTheme

SpecCalls == InitCalls /\ [][NextCalls]_vars

\* ------------------------------------------------------------------ one call of extractLogoUrl

\* b.png
SrcBannerPng ==
  <<"b", ".", "p", "n", "g">>
\* og.png
OgImagePng ==
  <<"o", "g", ".", "p", "n", "g">>

\* Where an img stands: under no element the selectors name, under one of them, or
\* as the first child of a link inside the header.
ImgPlaces ==
  { p \in [inHeader : BOOLEAN, inNav : BOOLEAN, inLogoClass : BOOLEAN,
           firstInAnchor : BOOLEAN] :
      \/ Cardinality({f \in {"inHeader", "inNav", "inLogoClass", "firstInAnchor"} : p[f]}) <= 1
      \/ (p.inHeader /\ p.firstInAnchor /\ ~p.inNav /\ ~p.inLogoClass) }

ImgSrcs == {Null, <<>>, SrcLogoPng, SrcBannerPng}

Imgs ==
  { [inHeader |-> p.inHeader, inNav |-> p.inNav, inLogoClass |-> p.inLogoClass,
     firstInAnchor |-> p.firstInAnchor, src |-> u] : p \in ImgPlaces, u \in ImgSrcs }

\* the most img elements of a document
MaxImgs == 2

LogoDocs ==
  { [imgs |-> is, metas |-> ms, links |-> <<>>] :
      is \in UNION {[1..n -> Imgs] : n \in 0..MaxImgs},
      ms \in {<<>>, <<OgImagePng>>, <<Null>>} }

InitLogo ==
  /\ NothingElse
  /\ NoFunctionCalled
  /\ pc = "idle"
  /\ html \in LogoDocs
  /\ logo = Unset
  /\ cssTexts = <<>>
  /\ theme = NoTheme
  /\ threw = FALSE
  /\ colorCounts = <<>>
  /\ first = NoCall
  /\ calls = 0
  /\ fragment = <<>>
  /\ sanitized = <<>>

ExtractLogoUrl ==
  /\ pc = "idle"
  /\ logo' = extractLogoUrl(html)
  /\ pc' = "done"
  /\ UNCHANGED <<laterVars, html, cssTexts, theme, threw, colorCounts, first, calls, fragment, sanitized,
               functionVars>>

NextLogo == ExtractLogoUrl

SpecLogo == InitLogo /\ [][NextLogo]_vars

\* ------------------------------------------------------------------ inputs of analyzeColors

\* The CSS given to analyzeColors is a concatenation of these pieces; each ends in a
\* blank, so that a literal ends where its piece ends.
\* #f00 #FF0000 #ff0000ff 
ColorRedHex ==
  <<"#", "f", "0", "0", " ", "#", "F", "F", "0", "0", "0", "0", " ", "#", "f", "f",
    "0", "0", "0", "0", "f", "f", " ">>
\* rgb(255,0,0) 
ColorRedRgb ==
  <<"r", "g", "b", "(", "2", "5", "5", ",", "0", ",", "0", ")", " ">>
\* hsl(0,100%,50%) 
ColorRedHsl ==
  <<"h", "s", "l", "(", "0", ",", "1", "0", "0", "%", ",", "5", "0", "%", ")", " ">>
\* #00ff00 #808080 
ColorGreenHex ==
  <<"#", "0", "0", "f", "f", "0", "0", " ", "#", "8", "0", "8", "0", "8", "0", " ">>
\* rgba(0, 0,255,1) 
ColorBlueRgb ==
  <<"r", "g", "b", "a", "(", "0", ",", " ", "0", ",", "2", "5", "5", ",", "1", ")",
    " ">>
\* #123456 #234567 #345678 #456789 
ColorFourHex ==
  <<"#", "1", "2", "3", "4", "5", "6", " ", "#", "2", "3", "4", "5", "6", "7", " ",
    "#", "3", "4", "5", "6", "7", "8", " ", "#", "4", "5", "6", "7", "8", "9", " ">>
\* a{color:#ff0000} b{color:#ff0000} c{color:#00ff00} 
ColorSpecExample ==
  <<"a", "{", "c", "o", "l", "o", "r", ":", "#", "f", "f", "0", "0", "0", "0", "}",
    " ", "b", "{", "c", "o", "l", "o", "r", ":", "#", "f", "f", "0", "0", "0", "0",
    "}", " ", "c", "{", "c", "o", "l", "o", "r", ":", "#", "0", "0", "f", "f", "0",
    "0", "}", " ">>

ColorPieces ==
  { ColorRedHex, ColorRedRgb, ColorRedHsl, ColorGreenHex, ColorBlueRgb, ColorFourHex,
    ColorSpecExample }

\* the most pieces a CSS text is made of
MaxColorPieces == 3

ColorPieceLists == UNION {[1..n -> ColorPieces] : n \in 0..MaxColorPieces}

\* ------------------------------------------------------------------ one call of analyzeColors

\* no extractTheme, extractLogoUrl or sanitizeHtml call is under way
NoThemeCalled ==
  /\ cssTexts = <<>>
  /\ html = EmptyDoc
  /\ theme = NoTheme
  /\ threw = FALSE
  /\ first = NoCall
  /\ calls = 0
  /\ logo = Unset
  /\ fragment = <<>>
  /\ sanitized = <<>>

InitColors ==
  /\ NothingElse
  /\ pc = "idle"
  /\ NoThemeCalled
  /\ colorCounts = <<>>
  /\ cssText \in {join(ps, <<>>) : ps \in ColorPieceLists}
  /\ topColors = Unset
  /\ font = Unset
  /\ background = Unset
  /\ hexArg = <<>>
  /\ amountArg = 0
  /\ adjusted = Unset
  /\ cssVariables = Unset

AnalyzeColors ==
  /\ pc = "idle"
  /\ topColors' = analyzeColors(cssText)
  /\ colorCounts' = ColorTally(cssText)
  /\ pc' = "done"
  /\ UNCHANGED <<laterVars, cssTexts, html, theme, threw, first, calls, logo, fragment, sanitized,
                 cssText, font, background, hexArg, amountArg, adjusted, cssVariables>>

NextColors == AnalyzeColors

SpecColors == InitColors /\ [][NextColors]_vars

\* ------------------------------------------------------------------ themeToCssVariables

\* The declarations of the template literal, in its order: the variable's name and
\* the field of the theme interpolated after it.
CssDeclarations ==
  <<
    [name |-> <<"-", "-", "f", "l", "-", "c", "o", "l", "o", "r", "-", "p", "r", "i", "m", "a", "r", "y">>,
     field |-> "primaryColor"],
    [name |-> <<"-", "-", "f", "l", "-", "c", "o", "l", "o", "r", "-", "p", "r", "i", "m", "a", "r", "y", "-", "h", "o", "v", "e", "r">>,
     field |-> "primaryHover"],
    [name |-> <<"-", "-", "f", "l", "-", "c", "o", "l", "o", "r", "-", "s", "e", "c", "o", "n", "d", "a", "r", "y">>,
     field |-> "secondaryColor"],
    [name |-> <<"-", "-", "f", "l", "-", "c", "o", "l", "o", "r", "-", "b", "g", "-", "b", "a", "s", "e">>,
     field |-> "bgColor"],
    [name |-> <<"-", "-", "f", "l", "-", "c", "o", "l", "o", "r", "-", "b", "g", "-", "s", "u", "r", "f", "a", "c", "e">>,
     field |-> "surfaceColor"],
    [name |-> <<"-", "-", "f", "l", "-", "c", "o", "l", "o", "r", "-", "b", "g", "-", "e", "l", "e", "v", "a", "t", "e", "d">>,
     field |-> "elevatedColor"],
    [name |-> <<"-", "-", "f", "l", "-", "c", "o", "l", "o", "r", "-", "t", "e", "x", "t", "-", "p", "r", "i", "m", "a", "r", "y">>,
     field |-> "textColor"],
    [name |-> <<"-", "-", "f", "l", "-", "c", "o", "l", "o", "r", "-", "t", "e", "x", "t", "-", "s", "e", "c", "o", "n", "d", "a", "r", "y">>,
     field |-> "textSecondary"],
    [name |-> <<"-", "-", "f", "l", "-", "c", "o", "l", "o", "r", "-", "b", "o", "r", "d", "e", "r">>,
     field |-> "borderColor"],
    [name |-> <<"-", "-", "f", "l", "-", "c", "o", "l", "o", "r", "-", "b", "o", "r", "d", "e", "r", "-", "f", "o", "c", "u", "s">>,
     field |-> "primaryColor"],
    [name |-> <<"-", "-", "f", "l", "-", "f", "o", "n", "t", "-", "f", "a", "m", "i", "l", "y">>,
     field |-> "fontFamily"]
  >>

\* A line that is left out when the field is empty, as if the template were built
\* from conditional parts.
DeclarationLineUnlessEmpty(t, d) ==
  IF t[d.field] = <<>> THEN <<>>
  ELSE <<" ", " ">> \o d.name \o <<":", " ">> \o t[d.field] \o <<";", "\n">>

\* one line of the template: two blanks, the name, ": ", ${theme.<field>}, ";"
DeclarationLine(t, d) ==
  <<" ", " ">> \o d.name \o <<":", " ">> \o t[d.field] \o <<";", "\n">>

RECURSIVE DeclarationLines(_, _)
DeclarationLines(t, i) ==
  IF i > Len(CssDeclarations) THEN <<>>
  ELSE DeclarationLine(t, CssDeclarations[i]) \o DeclarationLines(t, i + 1)

\* `\n:root {\n ... }`.trim()
themeToCssVariables(t) ==
  trim(<<"\n">> \o <<":", "r", "o", "o", "t", " ", "{", "\n">> \o DeclarationLines(t, 1) \o <<"}">>)

\* ------------------------------------------------------------------ one call of themeToCssVariables

\* The themes a call is given: what extractTheme returns and what a caller has
\* edited field by field.
LogoPath == <<"/", "l", "o", "g", "o", ".", "p", "n", "g">>
FontGeorgia == <<"G", "e", "o", "r", "g", "i", "a", ",", " ", "s", "e", "r", "i", "f">>
PureRed == <<"#", "f", "f", "0", "0", "0", "0">>
PureGreen == <<"#", "0", "0", "f", "f", "0", "0">>
CssThemes ==
  [primaryColor : {DefaultPrimary, PureRed},
   primaryHover : {adjustLightness(DefaultPrimary, HoverLight)},
   secondaryColor : {DefaultSecondary, PureGreen},
   bgColor : {DefaultLightBg, DefaultDarkBg},
   surfaceColor : {adjustLightness(DefaultLightBg, SurfaceLight)},
   elevatedColor : {adjustLightness(DefaultLightBg, ElevatedLight)},
   textColor : {LightText, DarkText},
   textSecondary : {LightTextSecondary},
   borderColor : {LightBorder},
   fontFamily : {DefaultFont, FontGeorgia, <<>>},
   logoUrl : {<<>>, LogoPath},
   faviconUrl : {<<>>},
   isDark : BOOLEAN]

InitCssVariables ==
  /\ NothingElse
  /\ pc = "idle"
  /\ theme \in CssThemes
  /\ cssTexts = <<>>
  /\ html = EmptyDoc
  /\ threw = FALSE
  /\ colorCounts = <<>>
  /\ first = NoCall
  /\ calls = 0
  /\ logo = Unset
  /\ fragment = <<>>
  /\ sanitized = <<>>
  /\ NoFunctionCalled

ThemeToCssVariables ==
  /\ pc = "idle"
  /\ cssVariables' = themeToCssVariables(theme)
  /\ pc' = "done"
  /\ UNCHANGED <<laterVars, cssTexts, html, theme, threw, colorCounts, first, calls, logo, fragment,
                 sanitized, cssText, topColors, font, background, hexArg, amountArg,
                 adjusted>>

NextCssVariables == ThemeToCssVariables

SpecCssVariables == InitCssVariables /\ [][NextCssVariables]_vars

\* ------------------------------------------------------------------ inputs of extractFontFamily and extractBackgroundColor

\* The CSS texts given to the two functions are concatenations of these rules.
\* body{font-family:'Inter', sans-serif;}
RuleBodyFont ==
  <<"b", "o", "d", "y", "{", "f", "o", "n", "t", "-", "f", "a", "m", "i", "l", "y",
    ":", "'", "I", "n", "t", "e", "r", "'", ",", " ", "s", "a", "n", "s", "-", "s",
    "e", "r", "i", "f", ";", "}">>
\* BODY {color:red; font-family : Verdana ; }
RuleUpperBodyFont ==
  <<"B", "O", "D", "Y", " ", "{", "c", "o", "l", "o", "r", ":", "r", "e", "d", ";",
    " ", "f", "o", "n", "t", "-", "f", "a", "m", "i", "l", "y", " ", ":", " ", "V",
    "e", "r", "d", "a", "n", "a", " ", ";", " ", "}">>
\* html{font-family:"Georgia";}
RuleHtmlFont ==
  <<"h", "t", "m", "l", "{", "f", "o", "n", "t", "-", "f", "a", "m", "i", "l", "y",
    ":", "\"", "G", "e", "o", "r", "g", "i", "a", "\"", ";", "}">>
\* :root{font-family:Menlo;}
RuleRootFont ==
  <<":", "r", "o", "o", "t", "{", "f", "o", "n", "t", "-", "f", "a", "m", "i", "l",
    "y", ":", "M", "e", "n", "l", "o", ";", "}">>
\* p{font-family:cursive;}
RuleParagraphFont ==
  <<"p", "{", "f", "o", "n", "t", "-", "f", "a", "m", "i", "l", "y", ":", "c", "u",
    "r", "s", "i", "v", "e", ";", "}">>
\* tbody{font-family:serif;}
RuleTbodyFont ==
  <<"t", "b", "o", "d", "y", "{", "f", "o", "n", "t", "-", "f", "a", "m", "i", "l",
    "y", ":", "s", "e", "r", "i", "f", ";", "}">>
\* body{font-family:Arial}
RuleBodyFontNoSemicolon ==
  <<"b", "o", "d", "y", "{", "f", "o", "n", "t", "-", "f", "a", "m", "i", "l", "y",
    ":", "A", "r", "i", "a", "l", "}">>
\* body{background:#0A0a0f url(x.png);}
RuleBodyHex ==
  <<"b", "o", "d", "y", "{", "b", "a", "c", "k", "g", "r", "o", "u", "n", "d", ":",
    "#", "0", "A", "0", "a", "0", "f", " ", "u", "r", "l", "(", "x", ".", "p", "n",
    "g", ")", ";", "}">>
\* body{background-color:rgb(255, 0, 0);}
RuleBodyRgb ==
  <<"b", "o", "d", "y", "{", "b", "a", "c", "k", "g", "r", "o", "u", "n", "d", "-",
    "c", "o", "l", "o", "r", ":", "r", "g", "b", "(", "2", "5", "5", ",", " ", "0",
    ",", " ", "0", ")", ";", "}">>
\* body{background:Transparent;}
RuleBodyNamed ==
  <<"b", "o", "d", "y", "{", "b", "a", "c", "k", "g", "r", "o", "u", "n", "d", ":",
    "T", "r", "a", "n", "s", "p", "a", "r", "e", "n", "t", ";", "}">>
\* body{background:hsl(120,100%,50%);}
RuleBodyHsl ==
  <<"b", "o", "d", "y", "{", "b", "a", "c", "k", "g", "r", "o", "u", "n", "d", ":",
    "h", "s", "l", "(", "1", "2", "0", ",", "1", "0", "0", "%", ",", "5", "0", "%",
    ")", ";", "}">>
\* body{background:navy;}
RuleBodyOther ==
  <<"b", "o", "d", "y", "{", "b", "a", "c", "k", "g", "r", "o", "u", "n", "d", ":",
    "n", "a", "v", "y", ";", "}">>
\* body{background:constructor;}
RuleBodyConstructor ==
  <<"b", "o", "d", "y", "{", "b", "a", "c", "k", "g", "r", "o", "u", "n", "d", ":",
    "c", "o", "n", "s", "t", "r", "u", "c", "t", "o", "r", ";", "}">>
\* tbody{background:red;}
RuleTbodyBackground ==
  <<"t", "b", "o", "d", "y", "{", "b", "a", "c", "k", "g", "r", "o", "u", "n", "d",
    ":", "r", "e", "d", ";", "}">>

RulePieces ==
  { RuleBodyFont, RuleUpperBodyFont, RuleHtmlFont, RuleRootFont,
    RuleParagraphFont, RuleTbodyFont, RuleBodyFontNoSemicolon, RuleBodyHex,
    RuleBodyRgb, RuleBodyNamed, RuleBodyHsl, RuleBodyOther,
    RuleBodyConstructor, RuleTbodyBackground }

\* the most rules a text is made of
MaxRulePieces == 2

RulePieceLists == UNION {[1..n -> RulePieces] : n \in 0..MaxRulePieces}

\* ------------------------------------------------------------------ one call of extractFontFamily or extractBackgroundColor

InitRules ==
  /\ NothingElse
  /\ pc = "idle"
  /\ NoThemeCalled
  /\ colorCounts = <<>>
  /\ cssText \in {join(ps, <<>>) : ps \in RulePieceLists}
  /\ topColors = Unset
  /\ font = Unset
  /\ background = Unset
  /\ hexArg = <<>>
  /\ amountArg = 0
  /\ adjusted = Unset
  /\ cssVariables = Unset

ExtractFontFamily ==
  /\ pc = "idle"
  /\ font' = extractFontFamily(cssText)
  /\ pc' = "done"
  /\ UNCHANGED <<laterVars, cssTexts, html, theme, threw, colorCounts, first, calls, logo, fragment,
                 sanitized, cssText, topColors, background, hexArg, amountArg, adjusted,
                 cssVariables>>

ExtractBackgroundColor ==
  /\ pc = "idle"
  /\ background' = extractBackgroundColor(cssText)
  /\ pc' = "done"
  /\ UNCHANGED <<laterVars, cssTexts, html, theme, threw, colorCounts, first, calls, logo, fragment,
                 sanitized, cssText, topColors, font, hexArg, amountArg, adjusted,
                 cssVariables>>

NextRules == ExtractFontFamily \/ ExtractBackgroundColor

SpecRules == InitRules /\ [][NextRules]_vars

\* ------------------------------------------------------------------ one call of adjustLightness

\* The channels of the colours and the amounts (in thousandths) a call is given.
AdjustChannels == {0, 10, 100, 128, 250, 255}
AdjustAmounts == {-1000, -100, -50, -30, 0, 50, 80, 100, 300, 1000}

\* #FFA07A
UpperCaseHex ==
  <<"#", "F", "F", "A", "0", "7", "A">>

AdjustHexes ==
  {rgbToHex(r, g, b) : r \in AdjustChannels, g \in AdjustChannels, b \in AdjustChannels}
    \cup {UpperCaseHex}

InitAdjust ==
  /\ NothingElse
  /\ pc = "idle"
  /\ NoThemeCalled
  /\ colorCounts = <<>>
  /\ cssText = <<>>
  /\ topColors = Unset
  /\ font = Unset
  /\ background = Unset
  /\ hexArg \in AdjustHexes
  /\ amountArg \in AdjustAmounts
  /\ adjusted = Unset
  /\ cssVariables = Unset

AdjustLightness ==
  /\ pc = "idle"
  /\ adjusted' = adjustLightness(hexArg, amountArg)
  /\ pc' = "done"
  /\ UNCHANGED <<laterVars, cssTexts, html, theme, threw, colorCounts, first, calls, logo, fragment,
                 sanitized, cssText, topColors, font, background, hexArg, amountArg,
                 cssVariables>>

NextAdjust == AdjustLightness

SpecAdjust == InitAdjust /\ [][NextAdjust]_vars

\* ------------------------------------------------------------------ calls of the colour utilities

\* The channels of the colours isNeutralColor is given: the values around its three
\* thresholds.
NeutralChannelValues == {0, 14, 15, 34, 35, 100, 119, 120, 221, 240, 241, 255}

NeutralHexes ==
  {rgbToHex(r, g, b) :
     r \in NeutralChannelValues, g \in NeutralChannelValues, b \in NeutralChannelValues}

\* The literals normalizeHex is given: three, six and eight hex digits in both
\* letter cases.
HexLiteralDigits == {"0", "9", "a", "F"}
HexLiterals ==
  {<<"#">> \o digits :
     digits \in UNION {[1..n -> HexLiteralDigits] : n \in {3, 6}}
                  \cup [1..8 -> {"c", "D"}]}

\* The arguments hslToHex is given: hues below and above a full turn, percentages up
\* to and above 100.
HslHues == {0, 2, 120, 210, 360, 725}
HslSaturations == {0, 20, 80, 100, 150}
HslLightnesses == {0, 25, 50, 95, 100, 120}

InitUtilities ==
  /\ pc = "idle"
  /\ NoThemeCalled
  /\ NoApp
  /\ colorCounts = <<>>
  /\ cssText = <<>>
  /\ topColors = Unset
  /\ font = Unset
  /\ background = Unset
  /\ amountArg = 0
  /\ adjusted = Unset
  /\ cssVariables = Unset
  /\ neutral = Unset
  /\ normalized = Unset
  /\ hslHex = Unset
  /\ \/ hexArg \in NeutralHexes \cup HexLiterals /\ hslArg = <<>>
     \/ /\ hexArg = <<>>
        /\ hslArg \in {<<h, s, l>> : h \in HslHues, s \in HslSaturations, l \in HslLightnesses}

IsNeutralColor ==
  /\ pc = "idle"
  /\ hexArg # <<>>
  /\ neutral' = isNeutralColor(hexArg)
  /\ pc' = "done"
  /\ UNCHANGED <<themeVars, functionVars, appVars, hslArg, normalized, hslHex>>

NormalizeHex ==
  /\ pc = "idle"
  /\ hexArg # <<>>
  /\ normalized' = normalizeHex(hexArg)
  /\ pc' = "done"
  /\ UNCHANGED <<themeVars, functionVars, appVars, hslArg, neutral, hslHex>>

HslToHex ==
  /\ pc = "idle"
  /\ hslArg # <<>>
  /\ hslHex' = hslToHex(hslArg[1], hslArg[2], hslArg[3])
  /\ pc' = "done"
  /\ UNCHANGED <<themeVars, functionVars, appVars, hslArg, neutral, normalized>>

NextUtilities == IsNeutralColor \/ NormalizeHex \/ HslToHex

SpecUtilities == InitUtilities /\ [][NextUtilities]_vars

\* ------------------------------------------------------------------ usePortalConfig

\* how many components use the hook
MaxHooks == 2

\* cachedConfig = null
NoConfig == [none |-> TRUE]

\* JavaScript values of the flags, written as their JSON text ("undefined": no such member)
JsonValues == {"undefined", "null", "true", "false", "0", "'yes'"}

\* x ?? d
Coalesce(x, d) == IF x \in {"undefined", "null"} THEN d ELSE x

\* the value is truthy
Truthy(x) == x \notin {"undefined", "null", "false", "0", "''"}

\* a && b, for a boolean a
AndThen(a, b) == IF a THEN b ELSE "false"

DefaultProductOptions == <<"Radar", "Canvas", "AgentPM", "Resolve", "LeadGen">>

DEFAULT_CONFIG ==
  [showProduct |-> "true", productOptions |-> DefaultProductOptions,
   showPriority |-> "true", showType |-> "false", showAdminInPortal |-> "false"]

\* the master switch, read from window.SP_CONFIG

getMdtShowAdminUnlessFalse == SP_CONFIG # "false"

getMdtShowAdmin ==
  IF SP_CONFIG = "absent" THEN TRUE ELSE SP_CONFIG = "true"

\* raw.productOptions as the JSON text gives it: no member, a string, or an array
NoOptions == "undefined"
OptionsString == "' Radar,,Canvas '"
OptionsArray == "[]"

\* raw.productOptions.split(',').map(s => s.trim()).filter(Boolean) of a string
SplitOptions(o) ==
  IF o = OptionsString THEN <<"Radar", "Canvas">> ELSE <<>>

\* the objects JSON.parse may return
RawConfigs ==
  {[showProduct |-> p, productOptions |-> o, showPriority |-> "undefined",
    showType |-> "undefined", showAdminInPortal |-> a] :
     p \in {"undefined", "false"}, o \in {NoOptions, OptionsString, OptionsArray},
     a \in JsonValues}

\* the remote call's outcomes: it rejects, reports no success, has no portalConfigJson,
\* has text that is not JSON, has the JSON text null, or has the JSON text of an object
Outcomes ==
  {[kind |-> k, raw |-> CHOOSE r \in RawConfigs : TRUE] :
     k \in {"rejects", "failure", "noJson", "invalid", "null"}}
  \cup {[kind |-> "object", raw |-> r] : r \in RawConfigs}

\* the body of load's try block raises: the call rejected, JSON.parse threw, raw is null,
\* or raw.productOptions has no method split
LoadThrows(outcome) ==
  \/ outcome.kind \in {"rejects", "invalid", "null"}
  \/ outcome.kind = "object" /\ outcome.raw.productOptions = OptionsArray

\* the object built from raw
ParsedConfig(raw) ==
  [showProduct |-> Coalesce(raw.showProduct, "true"),
   productOptions |->
     IF Truthy(raw.productOptions) THEN SplitOptions(raw.productOptions)
     ELSE DEFAULT_CONFIG.productOptions,
   showPriority |-> Coalesce(raw.showPriority, "true"),
   showType |-> Coalesce(raw.showType, "false"),
   showAdminInPortal |-> AndThen(getMdtShowAdmin, Coalesce(raw.showAdminInPortal, "false"))]

\* window.SP_CONFIG as the page sets it: absent, or with showAdminInPortal as given
SpConfigs == {"absent", "true", "false", "TRUE", "undefined"}

InitPortal ==
  /\ pc = "idle"
  /\ NoThemeCalled
  /\ colorCounts = <<>>
  /\ NoFunctionCalled
  /\ NoColorCalled
  /\ NoCaseViews
  /\ NoBranding
  /\ NoInlined
  /\ SP_CONFIG \in SpConfigs
  /\ cachedConfig = NoConfig
  /\ hooks = <<>>

\* a component renders for the first time: the two useState calls
Mount ==
  /\ Len(hooks) < MaxHooks
  /\ hooks' = Append(hooks,
       [at |-> "rendered",
        config |-> IF cachedConfig # NoConfig THEN cachedConfig ELSE DEFAULT_CONFIG,
        loading |-> cachedConfig = NoConfig])
  /\ UNCHANGED <<portalRest, SP_CONFIG, cachedConfig>>

\* the effect runs after the first render: it returns at once or calls load, which awaits
Effect(h) ==
  /\ hooks[h].at = "rendered"
  /\ hooks' = [hooks EXCEPT ![h].at = IF cachedConfig # NoConfig THEN "settled" ELSE "loading"]
  /\ UNCHANGED <<portalRest, SP_CONFIG, cachedConfig>>

\* the remote call settles and load runs to its end
Load(h, outcome) ==
  /\ hooks[h].at = "loading"
  /\ IF ~LoadThrows(outcome) /\ outcome.kind = "object"
       THEN LET parsed == ParsedConfig(outcome.raw)
            IN /\ cachedConfig' = parsed
               /\ hooks' = [hooks EXCEPT ![h] =
                    [at |-> "settled", config |-> parsed, loading |-> FALSE]]
       ELSE /\ hooks' = [hooks EXCEPT ![h].at = "settled", ![h].loading = FALSE]
            /\ UNCHANGED cachedConfig
  /\ UNCHANGED <<portalRest, SP_CONFIG>>

clearPortalConfigCache ==
  /\ cachedConfig' = NoConfig
  /\ UNCHANGED <<portalRest, SP_CONFIG, hooks>>

NextPortal ==
  \/ Mount
  \/ \E h \in DOMAIN hooks : Effect(h)
  \/ \E h \in DOMAIN hooks, outcome \in Outcomes : Load(h, outcome)
  \/ clearPortalConfigCache

SpecPortal == InitPortal /\ [][NextPortal]_vars

\* ------------------------------------------------------------------ caseViews.ts

\* the latest value of Date.now() the model reaches
MaxClock == 3

\* how many ids a case list holds
MaxListed == 2

\* Case ids: two record ids, and two names every object inherits from Object.prototype
InheritedNames == {"constructor", "__proto__"}
CaseIds == {"500A", "500B"} \cup InheritedNames

\* views has no own member of the name
NotStored == -1

\* id in views
InViews(v, id) == v[id] # NotStored \/ id \in InheritedNames

\* views[id] = now; an assignment of a number to __proto__ changes nothing
SetView(v, id, now) == IF id = "__proto__" THEN v ELSE [v EXCEPT ![id] = now]

\* the loop of initializeCaseViews over caseIds, from its i-th id on
RECURSIVE SeedViews(_, _, _, _)
SeedViews(v, caseIds, i, now) ==
  IF i > Len(caseIds) THEN v
  ELSE SeedViews(IF ~InViews(v, caseIds[i]) THEN SetView(v, caseIds[i], now) ELSE v,
                 caseIds, i + 1, now)

\* hasNewActivity(caseId, lastModifiedDate), with the date given as its getTime()
\* (NaN for a text that is no date)
hasNewActivity(v, caseId, modified) ==
  IF v[caseId] = NotStored
    THEN FALSE    \* undefined: return false; an inherited member: a number > NaN
  ELSE IF v[caseId] = 0 THEN FALSE
  ELSE modified # NaN /\ modified > v[caseId]

CaseLists == UNION {[1 .. n -> CaseIds] : n \in 0 .. MaxListed}

InitViews ==
  /\ pc = "idle"
  /\ NoThemeCalled
  /\ colorCounts = <<>>
  /\ NoFunctionCalled
  /\ NoColorCalled
  /\ NoPortal
  /\ NoBranding
  /\ NoInlined
  /\ views = [id \in CaseIds |-> NotStored]
  /\ clock = 1
  /\ viewCall = [op |-> "none"]

\* time passes
Tick ==
  /\ clock < MaxClock
  /\ clock' = clock + 1
  /\ UNCHANGED <<caseRest, views, viewCall>>

markCaseViewed(caseId) ==
  /\ views' = SetView(views, caseId, clock)
  /\ viewCall' = [op |-> "markCaseViewed", caseIds |-> <<caseId>>, before |-> views, now |-> clock]
  /\ UNCHANGED <<caseRest, clock>>

initializeCaseViews(caseIds) ==
  /\ views' = SeedViews(views, caseIds, 1, clock)
  /\ viewCall' =
       [op |-> "initializeCaseViews", caseIds |-> caseIds, before |-> views, now |-> clock]
  /\ UNCHANGED <<caseRest, clock>>

NextViews ==
  \/ Tick
  \/ \E caseId \in CaseIds : markCaseViewed(caseId)
  \/ \E caseIds \in CaseLists : initializeCaseViews(caseIds)

SpecViews == InitViews /\ [][NextViews]_vars

\* ------------------------------------------------------------------ the BrandingSettings screen

\* the theme the screen starts with and resets to
DemoTheme ==
  [primaryColor |-> "#2563eb", secondaryColor |-> "#16a34a", bgColor |-> "#f8fafc",
   surfaceColor |-> "#f1f5f9", textColor |-> "#0f172a", fontFamily |-> "Inter, sans-serif",
   logoUrl |-> "", faviconUrl |-> "", isDark |-> FALSE, headerHtml |-> "",
   footerHtml |-> "", siteCssUrls |-> <<>>]

\* themes that extractThemeFromData returns for a fetched site, and one stored earlier
ExtractedPlain == [DemoTheme EXCEPT !.primaryColor = "#ff0000"]
ExtractedBranded ==
  [DemoTheme EXCEPT !.primaryColor = "#00ff00", !.logoUrl = "https://a.example/logo.png",
                    !.headerHtml = "<header>a</header>", !.footerHtml = "<footer>a</footer>"]
StoredTheme == [DemoTheme EXCEPT !.primaryColor = "#123456", !.isDark = TRUE]

\* a message is the list of the texts it is joined from; '' is the empty list
NoMessage == <<>>

\* the outcomes of a remote call: the promise rejects (or the handler's try block raises),
\* or it resolves to a result with success false and an error text or none, or to a
\* result with success true, and for fetchWebsite the theme extracted from its data
Outcomes3 ==
  {[kind |-> "throws", error |-> "", extracted |-> DemoTheme, favicon |-> ""],
   [kind |-> "failure", error |-> "", extracted |-> DemoTheme, favicon |-> ""],
   [kind |-> "failure", error |-> "Not authorized.", extracted |-> DemoTheme, favicon |-> ""]}

SaveOutcomes ==
  Outcomes3 \cup {[kind |-> "success", error |-> "", extracted |-> DemoTheme, favicon |-> ""]}

FetchOutcomes ==
  Outcomes3 \cup
  {[kind |-> "success", error |-> "", extracted |-> e, favicon |-> f] :
     e \in {ExtractedPlain, ExtractedBranded}, f \in {"", "https://a.example/favicon.ico"}}

\* result.error || fallback
ErrorText(outcome, fallback) == IF outcome.error # "" THEN <<outcome.error>> ELSE <<fallback>>

\* handleExtract, handleSave and handleReset up to their await
Begin(state, flag) == [state EXCEPT !.error = NoMessage, !.success = NoMessage, ![flag] = TRUE]

\* the message handleExtract sets after a successful fetch
ExtractedMessage(extracted) ==
  <<"Theme extracted!">>
  \o (IF extracted.headerHtml # "" THEN <<" Header captured.">> ELSE <<>>)
  \o (IF extracted.footerHtml # "" THEN <<" Footer captured.">> ELSE <<>>)
  \o <<" Review the preview below and save when ready.">>

\* handleExtract after its await
AfterExtract(state, outcome) ==
  IF outcome.kind = "success"
    THEN LET extracted ==
               IF outcome.favicon # ""
                 THEN [outcome.extracted EXCEPT !.faviconUrl = outcome.favicon]
                 ELSE outcome.extracted
         IN [state EXCEPT !.theme = extracted,
                          !.logoUrl = IF extracted.logoUrl # "" THEN extracted.logoUrl ELSE @,
                          !.success = ExtractedMessage(extracted),
                          !.extracting = FALSE]
  ELSE IF outcome.kind = "failure"
    THEN [state EXCEPT !.error = ErrorText(outcome, "Failed to fetch website."),
                       !.extracting = FALSE]
  ELSE [state EXCEPT !.error = <<"Could not extract theme from this URL.">>,
                     !.extracting = FALSE]

\* handleSave after its await
AfterSave(state, outcome) ==
  IF outcome.kind = "success"
    THEN [state EXCEPT !.success = <<"Theme saved! Refresh the portal to see changes.">>,
                       !.saving = FALSE]
  ELSE IF outcome.kind = "failure"
    THEN [state EXCEPT !.error = ErrorText(outcome, "Failed to save theme."),
                       !.saving = FALSE]
  ELSE [state EXCEPT !.error = <<"Something went wrong.">>, !.saving = FALSE]

\* handleReset after its await, with the flag kept as it is after a success
AfterResetKeepConfirm(state, outcome) ==
  IF outcome.kind = "success"
    THEN [state EXCEPT !.theme = DemoTheme, !.logoUrl = "", !.companyName = "",
                       !.websiteUrl = "",
                       !.success =
                         <<"Theme reset to defaults. Refresh the portal to see changes.">>,
                       !.resetting = FALSE]
  ELSE IF outcome.kind = "failure"
    THEN [state EXCEPT !.error = ErrorText(outcome, "Failed to reset theme."),
                       !.resetting = FALSE]
  ELSE [state EXCEPT !.error = <<"Something went wrong.">>, !.resetting = FALSE]

\* handleReset after its await
AfterReset(state, outcome) ==
  IF outcome.kind = "success"
    THEN [state EXCEPT !.theme = DemoTheme, !.logoUrl = "", !.companyName = "",
                       !.websiteUrl = "", !.confirmReset = FALSE,
                       !.success =
                         <<"Theme reset to defaults. Refresh the portal to see changes.">>,
                       !.resetting = FALSE]
  ELSE IF outcome.kind = "failure"
    THEN [state EXCEPT !.error = ErrorText(outcome, "Failed to reset theme."),
                       !.resetting = FALSE]
  ELSE [state EXCEPT !.error = <<"Something went wrong.">>, !.resetting = FALSE]

\* the component after its first render, with loadTheme awaiting ThemeAPI.getTheme
InitBranding ==
  /\ pc = "idle"
  /\ NoThemeCalled
  /\ colorCounts = <<>>
  /\ NoFunctionCalled
  /\ NoColorCalled
  /\ NoPortal
  /\ NoCaseViews
  /\ NoInlined
  /\ branding =
       [websiteUrl |-> "", companyName |-> "", logoUrl |-> "", theme |-> DemoTheme,
        extracting |-> FALSE, saving |-> FALSE, resetting |-> FALSE,
        confirmReset |-> FALSE, error |-> NoMessage, success |-> NoMessage]
  /\ pending = [getTheme |-> 1, fetchWebsite |-> 0, saveTheme |-> 0, resetToDemo |-> 0]
  /\ settled = [call |-> "none", kind |-> "none"]

\* ThemeAPI.getTheme settles: a stored theme with its logo, company and source, or nothing
LoadTheme(stored) ==
  /\ pending.getTheme > 0
  /\ pending' = [pending EXCEPT !.getTheme = @ - 1]
  /\ branding' =
       IF stored
         THEN [branding EXCEPT !.theme = StoredTheme,
                               !.logoUrl = "https://b.example/logo.png",
                               !.companyName = "Funnelists",
                               !.websiteUrl = "https://b.example"]
         ELSE branding
  /\ settled' = [call |-> "getTheme", kind |-> IF stored THEN "success" ELSE "failure"]
  /\ UNCHANGED screenRest

\* the Website URL input changes
SetWebsiteUrl(url) ==
  /\ branding.websiteUrl # url
  /\ branding' = [branding EXCEPT !.websiteUrl = url]
  /\ UNCHANGED <<screenRest, pending, settled>>

\* the Dark mode checkbox changes: updateThemeField('isDark', checked)
UpdateThemeField ==
  /\ branding' = [branding EXCEPT !.theme.isDark = ~@]
  /\ UNCHANGED <<screenRest, pending, settled>>

\* the button Extract Theme, enabled unless extracting or without a URL
HandleExtract ==
  /\ ~branding.extracting /\ branding.websiteUrl # ""
  /\ branding' = Begin(branding, "extracting")
  /\ pending' = [pending EXCEPT !.fetchWebsite = @ + 1]
  /\ UNCHANGED <<screenRest, settled>>

ExtractSettles(outcome) ==
  /\ pending.fetchWebsite > 0
  /\ pending' = [pending EXCEPT !.fetchWebsite = @ - 1]
  /\ branding' = AfterExtract(branding, outcome)
  /\ settled' = [call |-> "fetchWebsite", kind |-> outcome.kind]
  /\ UNCHANGED screenRest

\* the button Save Theme, enabled unless saving
HandleSave ==
  /\ ~branding.saving
  /\ branding' = Begin(branding, "saving")
  /\ pending' = [pending EXCEPT !.saveTheme = @ + 1]
  /\ UNCHANGED <<screenRest, settled>>

SaveSettles(outcome) ==
  /\ pending.saveTheme > 0
  /\ pending' = [pending EXCEPT !.saveTheme = @ - 1]
  /\ branding' = AfterSave(branding, outcome)
  /\ settled' = [call |-> "saveTheme", kind |-> outcome.kind]
  /\ UNCHANGED screenRest

\* the button Reset to Demo, shown while confirmReset is false
AskReset ==
  /\ ~branding.confirmReset
  /\ branding' = [branding EXCEPT !.confirmReset = TRUE]
  /\ UNCHANGED <<screenRest, pending, settled>>

\* the button Confirm Reset, shown while confirmReset is true, enabled unless resetting
HandleReset ==
  /\ branding.confirmReset /\ ~branding.resetting
  /\ branding' = Begin(branding, "resetting")
  /\ pending' = [pending EXCEPT !.resetToDemo = @ + 1]
  /\ UNCHANGED <<screenRest, settled>>

ResetSettles(outcome) ==
  /\ pending.resetToDemo > 0
  /\ pending' = [pending EXCEPT !.resetToDemo = @ - 1]
  /\ branding' = AfterReset(branding, outcome)
  /\ settled' = [call |-> "resetToDemo", kind |-> outcome.kind]
  /\ UNCHANGED screenRest

SomeResetSettles == \E outcome \in SaveOutcomes : ResetSettles(outcome)

NextBranding ==
  \/ \E stored \in BOOLEAN : LoadTheme(stored)
  \/ \E url \in {"", "https://a.example"} : SetWebsiteUrl(url)
  \/ UpdateThemeField
  \/ HandleExtract
  \/ \E outcome \in FetchOutcomes : ExtractSettles(outcome)
  \/ HandleSave
  \/ \E outcome \in SaveOutcomes : SaveSettles(outcome)
  \/ AskReset
  \/ HandleReset
  \/ SomeResetSettles

SpecBranding == InitBranding /\ [][NextBranding]_vars

\* every awaited resetToDemo call settles
SpecBrandingFair == SpecBranding /\ WF_vars(SomeResetSettles)

\* ------------------------------------------------------------------ the extraction inlined in BrandingSettings.tsx

\* v.toString(16) of an integer v >= 0
RECURSIVE ToHexString(_)
ToHexString(v) ==
  IF v < 16 THEN <<HexChars[v + 1]>>
  ELSE ToHexString(v \div 16) \o <<HexChars[(v % 16) + 1]>>

\* v.toString(16).padStart(2, '0')
PaddedHex(v) ==
  IF v = NaN THEN <<"N", "a", "N">>
  ELSE IF v = Infinity THEN <<"I", "n", "f", "i", "n", "i", "t", "y">>
  ELSE IF v < 16 THEN <<"0">> \o ToHexString(v)
  ELSE ToHexString(v)

\* rgbToHex of BrandingSettings.tsx: the channels are not clamped
rgbToHexInlined(r, g, b) == <<"#">> \o PaddedHex(r) \o PaddedHex(g) \o PaddedHex(b)

\* adjustLightness of BrandingSettings.tsx
adjustLightnessInlined(hex, amount) ==
  rgbToHexInlined(AdjustChannel(ChannelR(hex), amount),
                  AdjustChannel(ChannelG(hex), amount),
                  AdjustChannel(ChannelB(hex), amount))

cssColorToHex(val) ==
  With(FirstHexLiteral(val), LAMBDA hexMatch :
    IF hexMatch # Null THEN normalizeHex(hexMatch)
    ELSE With(FirstRgb(val), LAMBDA rgbMatch :
      IF rgbMatch.ok THEN rgbToHexInlined(rgbMatch.n1, rgbMatch.n2, rgbMatch.n3)
      ELSE Null))

\* the loop over rgbPattern.exec(allCss) of extractThemeFromData
RECURSIVE ScanRgbInlined(_, _, _)
ScanRgbInlined(css, i, counts) ==
  With(First(i, Len(css), LAMBDA j : RgbPatternAt(css, j).ok), LAMBDA at :
    IF at > Len(css) THEN counts
    ELSE With(RgbPatternAt(css, at), LAMBDA m :
           ScanRgbInlined(css, m.end,
                          TallyIfColorful(counts, rgbToHexInlined(m.n1, m.n2, m.n3)))))

\* Inter, sans-serif
InlinedDefaultFont ==
  <<"I", "n", "t", "e", "r", ",", " ", "s", "a", "n", "s", "-", "s", "e", "r", "i", "f">>

\* the surface amount of a light theme taken to be that of the elevated level
InlinedSurfaceLightAsElevated == -50

\* the surface amounts of extractThemeFromData, in thousandths
InlinedSurfaceDark == 50
InlinedSurfaceLight == -30

\* header img, nav img, .logo img, [class*="logo"] img, a > img:first-child
InlinedLogoMatches(img) ==
  img.inHeader \/ img.inNav \/ img.inLogoClass \/ img.firstInAnchor

\* the logoUrl of extractThemeFromData: the src of headerImgs[0], else the content of
\* the first og:image meta, else ''
InlinedLogoUrl(doc) ==
  LET hits == {i \in 1..Len(doc.imgs) : InlinedLogoMatches(doc.imgs[i])}
      src == IF hits = {} THEN Null
             ELSE doc.imgs[CHOOSE i \in hits : \A j \in hits : i <= j].src
  IN IF src # Null /\ src # <<>> THEN src
     ELSE IF Len(doc.metas) > 0 /\ doc.metas[1] # Null THEN doc.metas[1]
     ELSE <<>>

\* extractThemeFromData, but for headerHtml and footerHtml: the document kept here has
\* no header or footer element to serialize
extractThemeFromData(doc, texts) ==
  With(join(texts, <<"\n">>), LAMBDA allCss :
  With(SortByCount(ScanRgbInlined(allCss, 1, ScanHex(allCss, 1, <<>>))),
       LAMBDA sortedColors :
  With(RuleMatch(allCss, LitBody, LitFontFamily, <<>>), LAMBDA fontMatch :
  With(RuleMatch(allCss, LitBody, LitBackground, LitColorSuffix), LAMBDA bgMatch :
  With(IF bgMatch # Null THEN cssColorToHex(bgMatch) ELSE Null, LAMBDA bgHex :
  With(IF bgHex # Null THEN bgHex ELSE DefaultLightBg, LAMBDA bgColor :
  With(IF bgHex # Null THEN LuminanceBelowHalf(getLuminance(bgHex)) ELSE FALSE,
       LAMBDA isDark :
    [primaryColor |-> IF Len(sortedColors) > 0 THEN sortedColors[1][1] ELSE DefaultPrimary,
     secondaryColor |->
       IF Len(sortedColors) > 1 THEN sortedColors[2][1] ELSE DefaultSecondary,
     bgColor |-> bgColor,
     surfaceColor |-> IF isDark THEN adjustLightnessInlined(bgColor, InlinedSurfaceDark)
                      ELSE adjustLightnessInlined(bgColor, InlinedSurfaceLight),
     textColor |-> IF isDark THEN DarkText ELSE LightText,
     fontFamily |-> IF fontMatch # Null THEN StripQuotes(fontMatch) ELSE InlinedDefaultFont,
     logoUrl |-> InlinedLogoUrl(doc),
     faviconUrl |-> <<>>,
     isDark |-> isDark])))))))

\* one call of extractThemeFromData on the arguments extractTheme is called on
ExtractThemeFromData ==
  /\ inlined = NoTheme
  /\ inlined' = extractThemeFromData(html, cssTexts)
  /\ UNCHANGED <<pc, themeVars, functionVars, colorVars, portalVars, caseVars, screenVars>>

\* the CSS texts the two extractions are compared on
InlinedCssPieces ==
  { CssBodyBackground, CssDarkValue, CssFourDigitHex, CssRedTwice, CssRgb, CssHsl,
    CssNeutrals, CssBodyFont, CssWhite, CssRgbOverflow }

\* the longest cssTexts list the two are given
MaxInlinedTexts == 2

InitInlined ==
  /\ NothingElse
  /\ NoFunctionCalled
  /\ pc = "idle"
  /\ cssTexts \in UNION {[1..n -> InlinedCssPieces] : n \in 0..MaxInlinedTexts}
  /\ html \in ThemeDocs
  /\ theme = NoTheme
  /\ threw = FALSE
  /\ colorCounts = <<>>
  /\ first = NoCall
  /\ calls = 0
  /\ logo = Unset
  /\ fragment = <<>>
  /\ sanitized = <<>>

NextInlined == ExtractTheme \/ ExtractThemeFromData

SpecInlined == InitInlined /\ [][NextInlined]_vars

\* ------------------------------------------------------------------ claims

ColorFields ==
  { "primaryColor", "primaryHover", "secondaryColor", "bgColor", "surfaceColor",
    "elevatedColor", "textColor", "textSecondary", "borderColor" }

ThemeFields ==
  ColorFields \cup {"fontFamily", "logoUrl", "faviconUrl", "isDark"}

\* '#' followed by exactly six lower-case hex digits
IsHex6(v) ==
  /\ Len(v) = 7
  /\ v[1] = "#"
  /\ \A i \in 2..7 : v[i] \in HexLowerSet

ThemeReturned == pc = "done" /\ ~threw
AllCss == join(cssTexts, <<"\n">>)

\* C1: extractTheme is total: every call returns a theme with every field set and
\* raises no exception, whatever the CSS holds as the value of a body background.
C1_ExtractThemeTotal ==
  pc = "done" =>
    /\ ~threw
    /\ theme # NoTheme
    /\ DOMAIN theme = ThemeFields

\* C2: every colour field of a returned theme is '#' followed by exactly six
\* lower-case hex digits.
C2_ColorsAreHex6 ==
  ThemeReturned => \A f \in ColorFields : IsHex6(theme[f])

Black == <<"#", "0", "0", "0", "0", "0", "0">>
Gray == <<"#", "8", "0", "8", "0", "8", "0">>

\* neutral as the specification defines it, on a six-digit colour
NeutralColor(v) ==
  /\ IsHex6(v)
  /\ LET r == 16 * HexDigitValue(v[2]) + HexDigitValue(v[3])
         g == 16 * HexDigitValue(v[4]) + HexDigitValue(v[5])
         b == 16 * HexDigitValue(v[6]) + HexDigitValue(v[7])
     IN \/ (Abs(r - g) < 20 /\ Abs(r - b) < 20 /\ Abs(g - b) < 20)
        \/ (r > 240 /\ g > 240 /\ b > 240)
        \/ (r < 15 /\ g < 15 /\ b < 15)

\* the colours the scan of the CSS tallied: the keys of colorCounts when the three
\* loops are through
MinedColors == {colorCounts[i][1] : i \in 1..Len(colorCounts)}

\* C3: primaryColor and secondaryColor are never neutral: each is a colour mined from
\* the CSS, or the fixed fallback when fewer than one, respectively two, colours were
\* mined; #ffffff, #000000 and #808080 never appear.
C3_PrimarySecondaryNotNeutral ==
  ThemeReturned =>
    /\ theme.primaryColor \in MinedColors \cup {DefaultPrimary}
    /\ theme.secondaryColor \in MinedColors \cup {DefaultSecondary}
    /\ Cardinality(MinedColors) < 1 => theme.primaryColor = DefaultPrimary
    /\ Cardinality(MinedColors) < 2 => theme.secondaryColor = DefaultSecondary
    /\ Cardinality(MinedColors) >= 1 => theme.primaryColor \in MinedColors
    /\ Cardinality(MinedColors) >= 2 => theme.secondaryColor \in MinedColors
    /\ ~NeutralColor(theme.primaryColor)
    /\ ~NeutralColor(theme.secondaryColor)
    /\ {theme.primaryColor, theme.secondaryColor} \cap {DefaultLightBg, Black, Gray} = {}

\* C3's case: the CSS names neutral colours three times and another colour once, and
\* the other colour is the primary one
C3_Witness ==
  /\ ThemeReturned
  /\ cssTexts = <<CssNeutrals, CssRgb>>
  /\ theme.primaryColor = <<"#", "0", "0", "8", "0", "f", "f">>
  /\ theme.secondaryColor = DefaultSecondary

HasOpeningTag(v, tag) ==
  \E i \in 1..Len(v) :
    MatchAtCI(v, i, <<"<">> \o tag) /\ ~IsWordChar(At(v, i + 1 + Len(tag)))

\* C5: the result of sanitizeHtml holds no script, noscript or iframe element, and
\* the specification's example header keeps its div.
C5_NoScriptElements ==
  pc = "done" =>
    /\ \A tag \in {LitScript, LitNoscript, LitIframe} : ~HasOpeningTag(sanitized, tag)
    /\ fragment = HtmlSpecExample => sanitized = HtmlSpecExampleClean

\* white space, a name that starts with "on", and an equals sign stand in the text
HasHandlerAttribute(v) ==
  \E i \in 1..Len(v) :
    /\ IsSpace(v[i])
    /\ MatchAtCI(v, i + 1, LitOn)
    /\ SkipWord(v, i + 3) > i + 3
    /\ At(v, SkipSpace(v, SkipWord(v, i + 3))) = "="

\* C6: the result of sanitizeHtml holds no event-handler attribute, and of a tag
\* whose only attribute is a handler nothing but the bare tag is left, whatever
\* quotes the value is written with or holds.
C6_NoEventHandlers ==
  pc = "done" =>
    /\ ~HasHandlerAttribute(sanitized)
    /\ fragment \in {HtmlQuotedHandler, HtmlPlainHandler, HtmlBareHandler}
         => sanitized = <<"<", "a", ">">>

\* an attribute value starts, after optional white space and an optional quote, with
\* the javascript: scheme in any letter case
HasJavascriptUrl(v) ==
  \E i \in 1..Len(v) :
    /\ v[i] = "="
    /\ LET z == SkipSpace(v, i + 1)
           u == IF At(v, z) \in Quotes THEN SkipSpace(v, z + 1) ELSE z
       IN MatchAtCI(v, u, LitJavascript)

\* C7: the result of sanitizeHtml holds no javascript: URL in any attribute, quoted
\* or not, whatever white space or letter case precedes the scheme.
C7_NoJavascriptUrls ==
  pc = "done" => ~HasJavascriptUrl(sanitized)

\* C8: with no body background parsed, bgColor is #ffffff and isDark is false; with
\* no colour, logo or favicon found either, the colours are the fallbacks and the two
\* URLs are empty; the dark default background appears only when it was parsed.
C8_NoSignalFallback ==
  ThemeReturned =>
    LET noBackground == extractBackgroundColor(AllCss) = Null
        noSignal == /\ noBackground
                    /\ MinedColors = {}
                    /\ extractLogoUrl(html) \in {Null, <<>>}
                    /\ extractFaviconUrl(html) \in {Null, <<>>}
    IN /\ noBackground => (theme.bgColor = DefaultLightBg /\ ~theme.isDark)
       /\ noSignal => /\ theme.primaryColor = DefaultPrimary
                      /\ theme.secondaryColor = DefaultSecondary
                      /\ theme.logoUrl = <<>>
                      /\ theme.faviconUrl = <<>>
       /\ (cssTexts = <<>> /\ html = EmptyDoc) => noSignal
       /\ theme.bgColor = DefaultDarkBg => ~noBackground

\* C8's case: extractTheme('', [])
C8_Witness ==
  /\ ThemeReturned
  /\ cssTexts = <<>>
  /\ html = EmptyDoc
  /\ theme.primaryColor = DefaultPrimary
  /\ theme.bgColor = DefaultLightBg

MatchesOf(doc, k) == {i \in 1..Len(doc.imgs) : LogoSelectorMatches(k, doc.imgs[i])}
Least(S) == CHOOSE i \in S : \A j \in S : i <= j
OgImageOrNull(doc) == IF Len(doc.metas) > 0 THEN doc.metas[1] ELSE Null

\* C10 as stated: the src of the first match of the highest-priority selector that
\* matches is returned, and the og:image content or null only when none matches.
C10_FirstMatchingSelector ==
  pc = "done" =>
    LET matching == {k \in 1..LogoSelectors : MatchesOf(html, k) # {}}
    IN IF matching # {}
         THEN logo = html.imgs[Least(MatchesOf(html, Least(matching)))].src
         ELSE logo = OgImageOrNull(html)

\* C10: the src of the first match of the highest-priority selector whose first match
\* has a non-empty src is returned, wherever the elements stand in the document; the
\* og:image content, or null, is returned only when no selector's first match has one.
C10_FirstSelectorWithSrc ==
  pc = "done" =>
    LET usable == {k \in 1..LogoSelectors :
                     /\ MatchesOf(html, k) # {}
                     /\ html.imgs[Least(MatchesOf(html, k))].src \notin {Null, <<>>}}
    IN IF usable # {}
         THEN logo = html.imgs[Least(MatchesOf(html, Least(usable)))].src
         ELSE logo = OgImageOrNull(html)

\* C10's case: a link image stands before the header's logo image, and the logo wins
C10_Witness ==
  /\ pc = "done"
  /\ Len(html.imgs) = 2
  /\ html.imgs[1].firstInAnchor /\ ~html.imgs[1].inHeader
  /\ html.imgs[1].src = SrcBannerPng
  /\ html.imgs[2].inHeader /\ html.imgs[2].src = SrcLogoPng
  /\ logo = SrcLogoPng

\* ------------------------------------------------------------------ claims on analyzeColors

Red == <<"#", "f", "f", "0", "0", "0", "0">>
Green == <<"#", "0", "0", "f", "f", "0", "0">>
Blue == <<"#", "0", "0", "0", "0", "f", "f">>
Four1 == <<"#", "1", "2", "3", "4", "5", "6">>
Four2 == <<"#", "2", "3", "4", "5", "6", "7">>
Four3 == <<"#", "3", "4", "5", "6", "7", "8">>
Four4 == <<"#", "4", "5", "6", "7", "8", "9">>

\* the colours a piece spells that are not neutral (the gray of ColorGreenHex is),
\* by syntax and in source order
Spelled(piece) ==
  CASE piece = ColorRedHex -> [hex |-> <<Red, Red, Red>>, rgb |-> <<>>, hsl |-> <<>>]
    [] piece = ColorRedRgb -> [hex |-> <<>>, rgb |-> <<Red>>, hsl |-> <<>>]
    [] piece = ColorRedHsl -> [hex |-> <<>>, rgb |-> <<>>, hsl |-> <<Red>>]
    [] piece = ColorGreenHex -> [hex |-> <<Green>>, rgb |-> <<>>, hsl |-> <<>>]
    [] piece = ColorBlueRgb -> [hex |-> <<>>, rgb |-> <<Blue>>, hsl |-> <<>>]
    [] piece = ColorFourHex ->
         [hex |-> <<Four1, Four2, Four3, Four4>>, rgb |-> <<>>, hsl |-> <<>>]
    [] piece = ColorSpecExample -> [hex |-> <<Red, Red, Green>>, rgb |-> <<>>, hsl |-> <<>>]

\* the pieces a text is made of, from position i on
RECURSIVE PiecesFrom(_, _)
PiecesFrom(text, i) ==
  IF i > Len(text) THEN <<>>
  ELSE LET piece == CHOOSE p \in ColorPieces : MatchAt(text, i, p)
       IN <<piece>> \o PiecesFrom(text, i + Len(piece))

RECURSIVE SpelledIn(_, _)
SpelledIn(pieces, syntax) ==
  IF pieces = <<>> THEN <<>>
  ELSE Spelled(Head(pieces))[syntax] \o SpelledIn(Tail(pieces), syntax)

\* the occurrences of non-neutral colours in cssText in the order the specification
\* has them tallied: the hex literals in source order, then rgb()/rgba(), then
\* hsl()/hsla()
Occurrences ==
  LET pieces == PiecesFrom(cssText, 1)
  IN SpelledIn(pieces, "hex") \o SpelledIn(pieces, "rgb") \o SpelledIn(pieces, "hsl")

OccurrencesOf(occ, color) == Cardinality({i \in 1..Len(occ) : occ[i] = color})
FirstOccurrence(occ, color) ==
  CHOOSE i \in 1..Len(occ) : occ[i] = color /\ \A j \in 1..(i - 1) : occ[j] # color
Spellings(occ) == {occ[i] : i \in 1..Len(occ)}

\* C11: analyzeColors returns at most 5 distinct colours in non-increasing order of
\* their number of occurrences, none left out occurs more often than one returned,
\* colours that occur equally often stand in the order first tallied (hex literals in
\* source order, then rgb, then hsl); no colour literal gives the empty list and the
\* specification's example gives #ff0000, #00ff00.
C11_RankedByCount ==
  pc = "done" => With(Occurrences, LAMBDA occ :
    /\ Len(topColors) <= 5
    /\ Len(topColors) = Min(5, Cardinality(Spellings(occ)))
    /\ \A i, j \in 1..Len(topColors) : i # j => topColors[i] # topColors[j]
    /\ \A i \in 1..Len(topColors) : topColors[i] \in Spellings(occ)
    /\ \A i, j \in 1..Len(topColors) :
         i < j => OccurrencesOf(occ, topColors[i]) >= OccurrencesOf(occ, topColors[j])
    /\ \A c \in Spellings(occ) : \A i \in 1..Len(topColors) :
         (\A j \in 1..Len(topColors) : topColors[j] # c)
           => OccurrencesOf(occ, c) <= OccurrencesOf(occ, topColors[i])
    /\ \A i, j \in 1..Len(topColors) :
         (i < j /\ OccurrencesOf(occ, topColors[i]) = OccurrencesOf(occ, topColors[j]))
           => FirstOccurrence(occ, topColors[i]) < FirstOccurrence(occ, topColors[j])
    /\ occ = <<>> => topColors = <<>>
    /\ cssText = ColorSpecExample => topColors = <<Red, Green>>)

\* C11's case: six colours occur once each, the blue one as the only rgb() literal
\* and before the green one in the text; the five hex colours are returned in source
\* order and blue is left out
C11_Witness ==
  /\ pc = "done"
  /\ cssText = ColorBlueRgb \o ColorFourHex \o ColorGreenHex
  /\ topColors = <<Four1, Four2, Four3, Four4, Green>>

\* C20: the tally is keyed by the normalized six-digit colour whatever the notation:
\* every spelling of one colour adds to one entry, whose count is the number of its
\* occurrences over the hex, rgb()/rgba() and hsl()/hsla() literals together, and no
\* colour stands twice in the tally or in the ranking; #f00, #FF0000, #ff0000ff,
\* rgb(255,0,0) and hsl(0,100%,50%) make one entry #ff0000 of count 5.
C20_OneEntryPerColor ==
  pc = "done" => With(Occurrences, LAMBDA occ :
    /\ \A i, j \in 1..Len(colorCounts) : i # j => colorCounts[i][1] # colorCounts[j][1]
    /\ {colorCounts[i][1] : i \in 1..Len(colorCounts)} = Spellings(occ)
    /\ \A i \in 1..Len(colorCounts) :
         /\ IsHex6(colorCounts[i][1])
         /\ colorCounts[i][2] = OccurrencesOf(occ, colorCounts[i][1])
    /\ \A i, j \in 1..Len(topColors) : i < j => topColors[i] # topColors[j]
    /\ cssText = ColorRedHex \o ColorRedRgb \o ColorRedHsl
         => colorCounts = <<<<Red, 5>>>> /\ topColors = <<Red>>)

\* C20's case: the five spellings of red in one text, tallied as one entry
C20_Witness ==
  /\ pc = "done"
  /\ cssText = ColorRedHex \o ColorRedRgb \o ColorRedHsl
  /\ colorCounts = <<<<Red, 5>>>>
  /\ topColors = <<Red>>

\* ------------------------------------------------------------------ claims on the derived palette

\* C12: in every returned theme primaryHover is adjustLightness of the theme's
\* primaryColor by +0.08 when the theme is dark and by -0.10 otherwise, surfaceColor is
\* adjustLightness of its bgColor by +0.05 / -0.03 and elevatedColor is adjustLightness
\* of its bgColor by +0.08 / -0.05 (amounts in thousandths), fallback values included.
C12_DerivedPalette ==
  ThemeReturned =>
    /\ theme.primaryHover =
         adjustLightness(theme.primaryColor, IF theme.isDark THEN 80 ELSE -100)
    /\ theme.surfaceColor = adjustLightness(theme.bgColor, IF theme.isDark THEN 50 ELSE -30)
    /\ theme.elevatedColor =
         adjustLightness(theme.bgColor, IF theme.isDark THEN 80 ELSE -50)

\* C12's case: a dark background #0a0a0f and a primary colour #ff0000 were parsed and
\* the three derived colours are the lightened ones
C12_Witness ==
  /\ ThemeReturned
  /\ cssTexts = <<CssBodyBackground, CssDarkValue>>
  /\ theme.isDark
  /\ theme.primaryColor = <<"#", "f", "f", "0", "0", "0", "0">>
  /\ theme.bgColor = <<"#", "0", "a", "0", "a", "0", "f">>
  /\ theme.primaryHover = <<"#", "f", "f", "1", "4", "1", "4">>
  /\ theme.surfaceColor = <<"#", "1", "7", "1", "7", "1", "c">>
  /\ theme.elevatedColor = <<"#", "1", "e", "1", "e", "2", "3">>

\* C13: textColor, textSecondary and borderColor are #ffffff, #a1a1aa and #2a2a3a in a
\* dark theme and #1f2937, #6b7280 and #e5e7eb otherwise; they take no other value.
C13_TextAndBorderByMode ==
  ThemeReturned =>
    /\ theme.isDark =>
         /\ theme.textColor = <<"#", "f", "f", "f", "f", "f", "f">>
         /\ theme.textSecondary = <<"#", "a", "1", "a", "1", "a", "a">>
         /\ theme.borderColor = <<"#", "2", "a", "2", "a", "3", "a">>
    /\ ~theme.isDark =>
         /\ theme.textColor = <<"#", "1", "f", "2", "9", "3", "7">>
         /\ theme.textSecondary = <<"#", "6", "b", "7", "2", "8", "0">>
         /\ theme.borderColor = <<"#", "e", "5", "e", "7", "e", "b">>

\* C13's case: a theme of a dark background, with the dark triple
C13_Witness ==
  /\ ThemeReturned
  /\ theme.isDark
  /\ theme.bgColor # DefaultDarkBg
  /\ theme.textColor = <<"#", "f", "f", "f", "f", "f", "f">>
  /\ theme.textSecondary = <<"#", "a", "1", "a", "1", "a", "a">>
  /\ theme.borderColor = <<"#", "2", "a", "2", "a", "3", "a">>

\* ------------------------------------------------------------------ claims on themeToCssVariables

\* the lines of a text
RECURSIVE SplitLines(_, _)
SplitLines(text, i) ==
  LET j == IndexOfChar(text, "\n", i)
  IN <<SubSeq(text, i, j - 1)>> \o (IF j > Len(text) THEN <<>> ELSE SplitLines(text, j + 1))

\* a line "  name: value;" read as a declaration
ReadDeclaration(line) ==
  LET colon == IndexOfChar(line, ":", 1)
  IN [name |-> SubSeq(line, 3, colon - 1), value |-> SubSeq(line, colon + 2, Len(line) - 1)]

\* the declarations between the first line ":root {" and the last line "}"
Declared ==
  LET lines == SplitLines(cssVariables, 1)
  IN [k \in 1..(Len(lines) - 2) |-> ReadDeclaration(lines[k + 1])]

\* a field's value as the template would write it
FieldText(field) ==
  IF field = "isDark"
    THEN (IF theme.isDark THEN <<"t", "r", "u", "e">> ELSE <<"f", "a", "l", "s", "e">>)
    ELSE theme[field]

\* C14 as stated: fields and declarations correspond one to one, so there are as
\* many declarations as the theme has fields, under distinct names, and every
\* field's value is the value of some declaration.
C14_OneDeclarationPerField ==
  pc = "done" =>
    /\ Len(Declared) = Cardinality(DOMAIN theme)
    /\ \A i, j \in 1..Len(Declared) : i # j => Declared[i].name # Declared[j].name
    /\ \A field \in DOMAIN theme :
         \E i \in 1..Len(Declared) : Declared[i].value = FieldText(field)

\* C14 amended: for every theme the text is ":root {", the same eleven declarations
\* in the same order and "}"; none is left out whatever the values, each carries the
\* value of one field; the ten colour and font fields are all emitted, primaryColor
\* twice (as --fl-color-primary and --fl-color-border-focus), and logoUrl, faviconUrl
\* and isDark are not emitted.
C14_FixedDeclarations ==
  pc = "done" =>
    /\ Head(SplitLines(cssVariables, 1)) = <<":", "r", "o", "o", "t", " ", "{">>
    /\ SplitLines(cssVariables, 1)[Len(SplitLines(cssVariables, 1))] = <<"}">>
    /\ Declared =
         <<
           [name |-> <<"-", "-", "f", "l", "-", "c", "o", "l", "o", "r", "-", "p", "r", "i", "m", "a", "r", "y">>,
            value |-> theme.primaryColor],
           [name |-> <<"-", "-", "f", "l", "-", "c", "o", "l", "o", "r", "-", "p", "r", "i", "m", "a", "r", "y", "-", "h", "o", "v", "e", "r">>,
            value |-> theme.primaryHover],
           [name |-> <<"-", "-", "f", "l", "-", "c", "o", "l", "o", "r", "-", "s", "e", "c", "o", "n", "d", "a", "r", "y">>,
            value |-> theme.secondaryColor],
           [name |-> <<"-", "-", "f", "l", "-", "c", "o", "l", "o", "r", "-", "b", "g", "-", "b", "a", "s", "e">>,
            value |-> theme.bgColor],
           [name |-> <<"-", "-", "f", "l", "-", "c", "o", "l", "o", "r", "-", "b", "g", "-", "s", "u", "r", "f", "a", "c", "e">>,
            value |-> theme.surfaceColor],
           [name |-> <<"-", "-", "f", "l", "-", "c", "o", "l", "o", "r", "-", "b", "g", "-", "e", "l", "e", "v", "a", "t", "e", "d">>,
            value |-> theme.elevatedColor],
           [name |-> <<"-", "-", "f", "l", "-", "c", "o", "l", "o", "r", "-", "t", "e", "x", "t", "-", "p", "r", "i", "m", "a", "r", "y">>,
            value |-> theme.textColor],
           [name |-> <<"-", "-", "f", "l", "-", "c", "o", "l", "o", "r", "-", "t", "e", "x", "t", "-", "s", "e", "c", "o", "n", "d", "a", "r", "y">>,
            value |-> theme.textSecondary],
           [name |-> <<"-", "-", "f", "l", "-", "c", "o", "l", "o", "r", "-", "b", "o", "r", "d", "e", "r">>,
            value |-> theme.borderColor],
           [name |-> <<"-", "-", "f", "l", "-", "c", "o", "l", "o", "r", "-", "b", "o", "r", "d", "e", "r", "-", "f", "o", "c", "u", "s">>,
            value |-> theme.primaryColor],
           [name |-> <<"-", "-", "f", "l", "-", "f", "o", "n", "t", "-", "f", "a", "m", "i", "l", "y">>,
            value |-> theme.fontFamily]
         >>

\* C14's case: a theme with an empty font family and a logo; the line of the font is
\* there with nothing after its colon, primaryColor stands in two declarations and
\* the logo in none
C14_Witness ==
  /\ pc = "done"
  /\ theme.fontFamily = <<>>
  /\ theme.logoUrl = LogoPath
  /\ theme.primaryColor = PureRed
  /\ Len(Declared) = 11
  /\ Declared[1].value = PureRed
  /\ Declared[10].value = PureRed
  /\ Declared[11].value = <<>>
  /\ \A i \in 1..11 : Declared[i].value # LogoPath

\* ------------------------------------------------------------------ claims on the inputs of extractTheme

\* C15: the colour, palette, font and isDark fields depend on the CSS texts only and
\* logoUrl and faviconUrl on the HTML only: a call with the cssTexts of the first call
\* agrees with it on every colour field, fontFamily and isDark whatever its html, and
\* a call with the html of the first call agrees with it on logoUrl and faviconUrl
\* whatever its cssTexts.
C15_InputSeparation ==
  (first.made /\ ~first.threw /\ ~threw) =>
    /\ cssTexts = first.cssTexts =>
         \A field \in {"primaryColor", "primaryHover", "secondaryColor", "bgColor",
                       "surfaceColor", "elevatedColor", "textColor", "textSecondary",
                       "borderColor", "fontFamily", "isDark"} :
           theme[field] = first.theme[field]
    /\ html = first.html =>
         /\ theme.logoUrl = first.theme.logoUrl
         /\ theme.faviconUrl = first.theme.faviconUrl

\* C15's case: the first call had no logo in its document, a later one has the same
\* cssTexts and a document with a logo and a favicon; the colours agree and the URLs
\* do not
C15_Witness ==
  /\ first.made
  /\ calls >= 2
  /\ cssTexts = first.cssTexts
  /\ cssTexts = <<CssRedTwice, CssHsl>>
  /\ first.html = EmptyDoc
  /\ html = BrandedDoc
  /\ theme.logoUrl = SrcLogoPng
  /\ first.theme.logoUrl = <<>>
  /\ theme.faviconUrl # first.theme.faviconUrl
  /\ theme.primaryColor = first.theme.primaryColor
  /\ theme.primaryColor # DefaultPrimary

\* ------------------------------------------------------------------ claims on what sanitizeHtml keeps

\* position i of the text lies inside a tag: the nearest angle bracket before it
\* opens one
InsideTag(v, i) ==
  \E k \in 1..(i - 1) : v[k] = "<" /\ \A j \in (k + 1)..(i - 1) : v[j] \notin {"<", ">"}

\* inside a tag stand white space, a name that starts with "on", and an equals sign
HasHandlerAttributeInTag(v) ==
  \E i \in 1..Len(v) :
    /\ InsideTag(v, i)
    /\ IsSpace(v[i])
    /\ MatchAtCI(v, i + 1, LitOn)
    /\ SkipWord(v, i + 3) > i + 3
    /\ At(v, SkipSpace(v, SkipWord(v, i + 3))) = "="

\* a fragment with nothing sanitizeHtml is there to remove
NothingToRemove(v) ==
  /\ \A tag \in {LitScript, LitNoscript, LitIframe} : ~HasOpeningTag(v, tag)
  /\ ~HasHandlerAttributeInTag(v)
  /\ ~HasJavascriptUrl(v)

\* C16: a fragment with no script, noscript or iframe element, no event-handler
\* attribute and no javascript: href is returned character for character unchanged,
\* text that merely holds a word starting with "on" followed by "=" included.
C16_NothingElseChanged ==
  (pc = "done" /\ NothingToRemove(fragment)) => sanitized = fragment

\* ------------------------------------------------------------------ claims on extractFontFamily and extractBackgroundColor

\* the rules a text is made of, from position i on
RECURSIVE RulesFrom(_, _)
RulesFrom(text, i) ==
  IF i > Len(text) THEN <<>>
  ELSE LET piece == CHOOSE p \in RulePieces : MatchAt(text, i, p)
       IN <<piece>> \o RulesFrom(text, i + Len(piece))

\* what a rule declares: its selector and the font family it gives, quotes stripped
\* (Null when it gives none)
FontDeclared(piece) ==
  CASE piece = RuleBodyFont -> [selector |-> "body", font |-> <<"I", "n", "t", "e", "r", ",", " ", "s", "a", "n", "s", "-", "s", "e", "r", "i", "f">>]
    [] piece = RuleUpperBodyFont -> [selector |-> "body", font |-> <<"V", "e", "r", "d", "a", "n", "a">>]
    [] piece = RuleHtmlFont -> [selector |-> "html", font |-> <<"G", "e", "o", "r", "g", "i", "a">>]
    [] piece = RuleRootFont -> [selector |-> ":root", font |-> <<"M", "e", "n", "l", "o">>]
    [] piece = RuleParagraphFont -> [selector |-> "p", font |-> <<"c", "u", "r", "s", "i", "v", "e">>]
    [] piece = RuleTbodyFont -> [selector |-> "tbody", font |-> <<"s", "e", "r", "i", "f">>]
    [] piece = RuleBodyFontNoSemicolon -> [selector |-> "body", font |-> <<"A", "r", "i", "a", "l">>]
    [] piece = RuleTbodyBackground -> [selector |-> "tbody", font |-> Null]
    [] OTHER -> [selector |-> "body", font |-> Null]

\* the font families the rules for a selector declare in the text
FontsFor(selector) ==
  LET rules == RulesFrom(cssText, 1)
  IN {FontDeclared(rules[i]).font :
        i \in {j \in 1..Len(rules) : /\ FontDeclared(rules[j]).selector = selector
                                      /\ FontDeclared(rules[j]).font # Null}}

\* C17: extractFontFamily returns the font family declared in a body rule if there
\* is one, otherwise the one of an html rule, otherwise the one of a :root rule,
\* otherwise null, whatever the order of the rules; quotes are stripped, and a font
\* family declared only in a rule for another selector is not returned.
C17_FontPriority ==
  (pc = "done" /\ font # Unset) =>
    IF FontsFor("body") # {} THEN font \in FontsFor("body")
    ELSE IF FontsFor("html") # {} THEN font \in FontsFor("html")
    ELSE IF FontsFor(":root") # {} THEN font \in FontsFor(":root")
    ELSE font = Null

\* the colour the claim gives a rule's background declaration: by the hex literal,
\* else the rgb() triple, else the table of six names; Null for every other value
\* and for a rule that is not a body rule or declares no background
BackgroundDeclared(piece) ==
  CASE piece = RuleBodyHex -> [declared |-> TRUE, color |-> <<"#", "0", "a", "0", "a", "0", "f">>]
    [] piece = RuleBodyRgb -> [declared |-> TRUE, color |-> <<"#", "f", "f", "0", "0", "0", "0">>]
    [] piece = RuleBodyNamed -> [declared |-> TRUE, color |-> <<"#", "f", "f", "f", "f", "f", "f">>]
    [] piece = RuleBodyHsl -> [declared |-> TRUE, color |-> Null]
    [] piece = RuleBodyOther -> [declared |-> TRUE, color |-> Null]
    [] piece = RuleBodyConstructor -> [declared |-> TRUE, color |-> Null]
    [] OTHER -> [declared |-> FALSE, color |-> Null]

BackgroundsOfBody ==
  LET rules == RulesFrom(cssText, 1)
  IN {BackgroundDeclared(rules[i]).color :
        i \in {j \in 1..Len(rules) : BackgroundDeclared(rules[j]).declared}}

\* C18: extractBackgroundColor looks only at a background or background-color
\* declaration of a body rule and converts its value by the hex literal in it, else
\* the rgb()/rgba() triple, else an exact match among white, black, red, blue, green
\* and transparent (#ffffff); every other value gives null, and so does a text with
\* no such declaration.
C18_BackgroundOfBodyOnly ==
  (pc = "done" /\ background # Unset) =>
    IF BackgroundsOfBody = {} THEN background = Null
    ELSE background \in BackgroundsOfBody

\* ------------------------------------------------------------------ claims on adjustLightness

\* the channels of the argument and of the result, and the exact shifted value of a
\* channel in thousandths
ChannelsIn == <<ChannelR(hexArg), ChannelG(hexArg), ChannelB(hexArg)>>
ChannelsOut == <<ChannelR(adjusted), ChannelG(adjusted), ChannelB(adjusted)>>
ShiftedThousandths(k) == 1000 * ChannelsIn[k] + 255 * amountArg

\* out is the exact value (in thousandths) rounded to the nearest integer, a half
\* upwards, and then clamped to 0..255
IsRoundedAndClamped(out, exact) ==
  /\ out \in 0..255
  /\ out > 0 => 1000 * out - 500 <= exact
  /\ out < 255 => exact < 1000 * out + 500

\* C19 as stated: every channel of the result equals the channel of the argument
\* plus amount*255, clamped to 0..255.
C19_ExactShift ==
  pc = "done" =>
    /\ IsHex6(adjusted)
    /\ \A k \in 1..3 : 1000 * ChannelsOut[k] = Min(255000, Max(0, ShiftedThousandths(k)))

\* C19 amended: the result is a valid lowercase six-digit colour whose every channel
\* is the channel of the argument plus amount*255, rounded to the nearest integer
\* (a half rounds up) and then clamped to 0..255; channels saturate and never wrap, a
\* positive amount lowers no channel and a negative amount raises none.
C19_RoundedShift ==
  pc = "done" =>
    /\ IsHex6(adjusted)
    /\ \A k \in 1..3 :
         /\ IsRoundedAndClamped(ChannelsOut[k], ShiftedThousandths(k))
         /\ amountArg > 0 => ChannelsOut[k] >= ChannelsIn[k]
         /\ amountArg < 0 => ChannelsOut[k] <= ChannelsIn[k]
         /\ amountArg = 0 => ChannelsOut[k] = ChannelsIn[k]

\* C19's case: #0a64fa darkened by 0.1; 10 - 25.5 saturates at 0, 100 - 25.5 = 74.5
\* rounds up to 75 and 250 - 25.5 = 224.5 to 225
C19_Witness ==
  /\ pc = "done"
  /\ hexArg = <<"#", "0", "a", "6", "4", "f", "a">>
  /\ amountArg = -100
  /\ adjusted = <<"#", "0", "0", "4", "b", "e", "1">>

\* ------------------------------------------------------------------ claims on the colour utilities

\* the largest of the three channel differences of the argument
LargestDifference ==
  Max(Abs(ChannelR(hexArg) - ChannelG(hexArg)),
      Max(Abs(ChannelR(hexArg) - ChannelB(hexArg)), Abs(ChannelG(hexArg) - ChannelB(hexArg))))

AllChannels(P(_)) == P(ChannelR(hexArg)) /\ P(ChannelG(hexArg)) /\ P(ChannelB(hexArg))

\* isNeutralColor has returned: of the two functions called on hexArg it is the one
\* that was called
NeutralReturned == pc = "done" /\ hexArg # <<>> /\ normalized = Unset

\* C21: for a colour with channels in 0..255 isNeutralColor is true exactly when the
\* largest channel difference is below 20, or all channels are above 240, or all are
\* below 15; a colour whose largest difference is 20 or more is never neutral.
C21_NeutralClassification ==
  (NeutralReturned /\ IsHex6(hexArg)) =>
    /\ neutral <=> \/ LargestDifference < 20
                   \/ AllChannels(LAMBDA c : c > 240)
                   \/ AllChannels(LAMBDA c : c < 15)
    /\ LargestDifference >= 20 => ~neutral

\* C21's case: #0f2323 has a largest difference of exactly 20 and is not neutral,
\* no channel being on the far side of the other two thresholds
C21_Witness ==
  /\ NeutralReturned
  /\ hexArg = <<"#", "0", "f", "2", "3", "2", "3">>
  /\ LargestDifference = 20
  /\ neutral = FALSE

\* the hex digits of the argument, lower case
DigitsLower == toLowerCase(Tail(hexArg))

\* C22: for a literal of three, six or eight hex digits in any letter case normalizeHex
\* returns '#' and six lower-case hex digits: the digits doubled for three, the digits
\* themselves for six, the first six for eight; a normalized colour is normalized to
\* itself.
C22_NormalizedForm ==
  (pc = "done" /\ normalized # Unset /\ Len(hexArg) \in {4, 7, 9}) =>
    /\ IsHex6(normalized)
    /\ Len(hexArg) = 4 =>
         Tail(normalized) = <<DigitsLower[1], DigitsLower[1], DigitsLower[2], DigitsLower[2],
                              DigitsLower[3], DigitsLower[3]>>
    /\ Len(hexArg) = 7 => Tail(normalized) = DigitsLower
    /\ Len(hexArg) = 9 => Tail(normalized) = SubSeq(DigitsLower, 1, 6)
    /\ normalizeHex(normalized) = normalized

\* C22's case: the eight-digit literal #cDcDDccD in both letter cases
C22_Witness ==
  /\ pc = "done"
  /\ hexArg = <<"#", "c", "D", "c", "D", "D", "c", "c", "D">>
  /\ normalized = <<"#", "c", "d", "c", "d", "d", "c">>

\* 300000 times the colour value l - a * max(min(k - 3, 9 - k, 1), -1) of channel n,
\* with a = s * min(l, 1 - l) and k = (n + h / 30) mod 12, for s and l in percent;
\* 30 * k and 30 times the clamped term are whole numbers
ColorTimes300000(n) ==
  LET h == hslArg[1]
      s == hslArg[2]
      l == hslArg[3]
      k30 == (30 * n + h) % 360
      t30 == Max(Min(Min(k30 - 90, 270 - k30), 30), -30)
  IN 3000 * l - s * Min(l, 100 - l) * t30

HslChannelsOut == <<ChannelR(hslHex), ChannelG(hslHex), ChannelB(hslHex)>>
HslSamples == <<0, 8, 4>>

\* C23 as stated: every channel is 255 times the colour value of the standard
\* conversion, rounded (a half upwards) and kept within 0..255.
C23_StandardConversion ==
  (pc = "done" /\ hslHex # Unset) =>
    /\ IsHex6(hslHex)
    /\ \A i \in 1..3 :
         HslChannelsOut[i] =
           Min(255, Max(0, (2 * 255 * ColorTimes300000(HslSamples[i]) + 300000) \div 600000))

\* C23 amended: hslToHex returns a valid six-digit colour whose every channel is an
\* integer nearest to 255 times the colour value of the standard conversion, kept
\* within 0..255; where that value lies exactly halfway between two integers either
\* of the two may be returned.  hslToHex(0, 100, 50) is #ff0000 and
\* hslToHex(120, 100, 50) is #00ff00.
C23_NearestChannel ==
  (pc = "done" /\ hslHex # Unset) =>
    /\ IsHex6(hslHex)
    /\ \A i \in 1..3 :
         /\ HslChannelsOut[i] \in 0..255
         /\ HslChannelsOut[i] > 0 =>
              600000 * HslChannelsOut[i] - 300000 <= 2 * 255 * ColorTimes300000(HslSamples[i])
         /\ HslChannelsOut[i] < 255 =>
              2 * 255 * ColorTimes300000(HslSamples[i]) <= 600000 * HslChannelsOut[i] + 300000
    /\ hslArg = <<0, 100, 50>> => hslHex = <<"#", "f", "f", "0", "0", "0", "0">>
    /\ hslArg = <<120, 100, 50>> => hslHex = <<"#", "0", "0", "f", "f", "0", "0">>

\* C23's case: hslToHex(0, 80, 50); green and blue are 255 * 0.1 = 25.5 and come out
\* as 25
C23_Witness ==
  /\ pc = "done"
  /\ hslArg = <<0, 80, 50>>
  /\ hslHex = <<"#", "e", "6", "1", "9", "1", "9">>


\* C24: whatever was mounted, loaded and cleared, a config that usePortalConfig returns,
\* and the cached one, has a showAdminInPortal that is true (or merely truthy) only
\* when window.SP_CONFIG is absent or its showAdminInPortal is the string 'true'
MasterSwitchAllows == SP_CONFIG \in {"absent", "true"}

C24_MasterSwitch ==
  /\ \A h \in DOMAIN hooks :
       hooks[h].config.showAdminInPortal \notin {"false", "0"} => MasterSwitchAllows
  /\ cachedConfig # NoConfig /\ cachedConfig.showAdminInPortal \notin {"false", "0"}
       => MasterSwitchAllows

\* a load under the switch 'true' has settled with the admin entry shown
C24_Witness ==
  /\ SP_CONFIG = "true"
  /\ \E h \in DOMAIN hooks :
       hooks[h].at = "settled" /\ hooks[h].config.showAdminInPortal = "true"


\* C25: initializeCaseViews(ids) leaves the stored time of every case that had one, and
\* gives every other listed case the current time; hasNewActivity(id, d) is false for a
\* case never recorded and for every d not later than the recorded time of id
ModifiedTimes == 0 .. MaxClock + 1

C25_SeedingAndActivity ==
  /\ viewCall.op = "initializeCaseViews" =>
       \A id \in CaseIds :
         /\ viewCall.before[id] # NotStored => views[id] = viewCall.before[id]
         /\ /\ viewCall.before[id] = NotStored
            /\ \E i \in DOMAIN viewCall.caseIds : viewCall.caseIds[i] = id
            => views[id] = viewCall.now
  /\ \A id \in CaseIds, d \in ModifiedTimes \cup {NaN} :
       /\ views[id] = NotStored => ~hasNewActivity(views, id, d)
       /\ views[id] # NotStored /\ d # NaN /\ d <= views[id] => ~hasNewActivity(views, id, d)


\* C27: in a returned theme whose bgColor is a 6-digit hex, each of R, G and B is ordered
\* elevatedColor <= surfaceColor <= bgColor when isDark is false, and
\* bgColor <= surfaceColor <= elevatedColor when isDark is true
ChannelsOf(hex) == <<ChannelR(hex), ChannelG(hex), ChannelB(hex)>>

ChannelwiseOrdered(low, mid, high) ==
  \A k \in 1..3 :
    /\ ChannelsOf(low)[k] <= ChannelsOf(mid)[k]
    /\ ChannelsOf(mid)[k] <= ChannelsOf(high)[k]

C27_PaletteOrdering ==
  ThemeReturned /\ IsHex6(theme.bgColor) =>
    IF theme.isDark
      THEN ChannelwiseOrdered(theme.bgColor, theme.surfaceColor, theme.elevatedColor)
      ELSE ChannelwiseOrdered(theme.elevatedColor, theme.surfaceColor, theme.bgColor)

\* a dark theme taken from a body background, its three levels all different
C27_Witness ==
  /\ ThemeReturned
  /\ theme.isDark
  /\ IsHex6(theme.bgColor)
  /\ theme.surfaceColor # theme.bgColor
  /\ theme.elevatedColor # theme.surfaceColor


\* C28: sanitizeHtml applied to its own result returns that result unchanged
C28_Idempotent ==
  pc = "done" /\ fragment # <<>> => sanitizeHtml(sanitized) = sanitized


\* C29: whatever the order in which handleExtract, handleSave and handleReset start and
\* their remote calls settle, the error message and the success message are never both
\* non-empty
C29_OneMessage == ~(branding.error # NoMessage /\ branding.success # NoMessage)


\* C30: a resetToDemo call is issued only while confirmReset is true and while no other
\* is awaited; when it settles resetting is false, after a success confirmReset is false,
\* the theme is the demo theme and logoUrl, companyName and websiteUrl are empty, and
\* after a failure or an exception theme, logoUrl, companyName, websiteUrl and
\* confirmReset are as before; and a reset that has started always ends, with resetting
\* false
ResetIssued == pending'.resetToDemo > pending.resetToDemo
ResetEnded == pending'.resetToDemo < pending.resetToDemo

C30_TwoStepReset ==
  /\ [][ResetIssued => branding.confirmReset /\ pending.resetToDemo = 0]_vars
  /\ [](pending.resetToDemo <= 1)
  /\ [][ResetEnded =>
          /\ ~branding'.resetting
          /\ IF settled'.kind = "success"
               THEN /\ ~branding'.confirmReset
                    /\ branding'.theme = DemoTheme
                    /\ branding'.logoUrl = ""
                    /\ branding'.companyName = ""
                    /\ branding'.websiteUrl = ""
               ELSE /\ branding'.theme = branding.theme
                    /\ branding'.logoUrl = branding.logoUrl
                    /\ branding'.companyName = branding.companyName
                    /\ branding'.websiteUrl = branding.websiteUrl
                    /\ branding'.confirmReset = branding.confirmReset]_vars
  /\ branding.resetting ~> ~branding.resetting

\* a reset of a stored theme has succeeded
C30_Witness ==
  /\ settled.call = "resetToDemo"
  /\ settled.kind = "success"
  /\ ~branding.confirmReset
  /\ ~branding.resetting
  /\ branding.theme = DemoTheme
  /\ branding.websiteUrl = ""


\* C26: when the CSS has no hsl()/hsla() literal, every rgb()/rgba() channel is in 0..255
\* and the body background value, if there is one, holds a hex literal or an rgb()/rgba()
\* triple, extractTheme and extractThemeFromData return the same primaryColor,
\* secondaryColor, bgColor, isDark, surfaceColor and textColor
NoHslLiteral(css) == \A j \in 1..Len(css) : ~HslPatternAt(css, j).ok

RgbChannelsInRange(css) ==
  \A j \in 1..Len(css) :
    RgbPatternAt(css, j).ok =>
      /\ RgbPatternAt(css, j).n1 <= 255
      /\ RgbPatternAt(css, j).n2 <= 255
      /\ RgbPatternAt(css, j).n3 <= 255

BodyBackgroundHasColor(css) ==
  With(RuleMatch(css, LitBody, LitBackground, LitColorSuffix), LAMBDA val :
    val = Null \/ FirstHexLiteral(val) # Null \/ FirstRgb(val).ok)

BothCalled == pc = "done" /\ inlined # NoTheme

SharedFieldsAgree ==
  /\ ~threw
  /\ theme.primaryColor = inlined.primaryColor
  /\ theme.secondaryColor = inlined.secondaryColor
  /\ theme.bgColor = inlined.bgColor
  /\ theme.isDark = inlined.isDark
  /\ theme.surfaceColor = inlined.surfaceColor
  /\ theme.textColor = inlined.textColor

C26_SharedFieldsAgree ==
  /\ BothCalled
  /\ NoHslLiteral(AllCss)
  /\ RgbChannelsInRange(AllCss)
  /\ BodyBackgroundHasColor(AllCss)
  => SharedFieldsAgree

\* both were called on a dark body background given as a hex literal, with a mined colour
C26_Witness ==
  /\ BothCalled
  /\ NoHslLiteral(AllCss) /\ RgbChannelsInRange(AllCss) /\ BodyBackgroundHasColor(AllCss)
  /\ inlined.isDark
  /\ inlined.primaryColor # DefaultPrimary
  /\ inlined.surfaceColor # inlined.bgColor

=============================================================================
